---- MODULE Spec2Model ----
(***************************************************************************)
(* Model of the rmbg post-processing core: the sigmoid lookup table and    *)
(* Otsu threshold, the scratch-buffer pool and the mask upsampler's use of *)
(* it, the session mutex around the inference engine, and the parallel     *)
(* compositor.                                                             *)
(*                                                                         *)
(* Number representation.  Logits are float32 values that are multiples of *)
(* 1/4 (exactly representable); a logit v is the integer 4*v.  Sigmoid     *)
(* values are held in millionths (s is the integer round(s * 10^6)).  The  *)
(* value returned by otsuThreshold, float32(t)/255, is held as its         *)
(* numerator t.  float64 values (the class variances of otsuThreshold, the *)
(* blend of blendParallel, the interpolation of resizeGrayBlur5O) are held *)
(* as sign, significand and exponent and rounded after every operation.    *)
(***************************************************************************)
EXTENDS Integers, Sequences, FiniteSets, TLC

VARIABLES
    \* ---- sigmoid table and Otsu threshold
    sigmoidLUT,   \* the package-level [256]float32, in millionths
    lutReady,     \* TRUE once the package init() has run
    data,         \* the logit field handed to otsuThreshold (quarters)
    otsuStatus,   \* "idle", "returned" or "panicked"
    otsuT,        \* numerator t of the returned threshold t/255
    \* ---- scratch-buffer pool (blurBufferPool)
    bufs,         \* the blurBuffer objects: lengths and capacities of tmp, hPass
    nBufs,        \* number of blurBuffer objects created by New so far
    pool,         \* sync.Pool contents: how many times each object is stored
    cl,           \* direct users of get/put: position, buffer, request, result
    retMax,       \* largest size of any borrow that has been returned
    \* ---- one RemBG engine and its concurrent callers
    eng,          \* per caller: operation, position, image size, held resources
    sessionMu,    \* RemBG.sessionMu: 0 when unlocked, else the caller holding it
    inPool,       \* tensorPool.inputPool: the input tensors stored
    outPool,      \* tensorPool.outputPool: the output tensors stored
    nIn,          \* input tensors created by New so far
    nOut,         \* output tensors created by New so far
    \* ---- one blendParallel call
    height,       \* bounds.Dy() of the source image
    width,        \* bounds.Dx() of the source image
    numCPU,       \* runtime.NumCPU()
    maskCol,      \* mask value of each column (the same in every row)
    srcRGB,       \* the source pixels (one colour): image type, stored bytes
    bpc,          \* "spawn" while in the loop, "done" after wg.Wait() returned
    bi,           \* the loop variable i
    wg,           \* the WaitGroup counter
    workers,      \* the goroutines started by wg.Go, in start order
    dst,          \* destination pixels <<R, G, B, A>>
    writes,       \* how many times each destination pixel was set
    \* ---- one crop(img, maskImg, config, scaleX, scaleY) call
    maskImg,      \* the mask argument: nil, or its rectangle and pixels
    cropImg,      \* the image argument: bounds.Dx() and bounds.Dy()
    cropCfg,      \* the CropConfig (MarginPercent in quarters)
    cropScale,    \* <<scaleX, scaleY>> in halves
    cropPc,       \* "enter", "detect", "geometry" or "returned"
    objBounds,    \* what detectObjectBounds returned
    cropRet,      \* the crop rectangle, the returned image's size, the error
    \* ---- one mask built from an image
    srcImg,       \* the image: its type, size and pixels
    maskPc,       \* "new", "ready" or "done"
    maskRet,      \* the strategy that produced the mask, and the mask
    \* ---- one resizeGrayBlur5O(src, newW, newH) call
    rsIn,         \* the arguments: the source mask, newW and newH
    rsBuf,        \* the blurBuffer in use: the bytes of tmp and of hPass
    rsDst,        \* the pixels of dst, by index y*newW + x
    rsPc,         \* "get", "resize", "hpass", "vpass", "return" or "done"
    rsI,          \* the row (horizontal pass) or column (vertical pass) to do
    rsSums        \* the running sums of the row or column just done

otsuVars == <<sigmoidLUT, lutReady, data, otsuStatus, otsuT>>

poolVars == <<bufs, nBufs, pool>>

clientVars == <<cl, retMax>>

engineVars == <<eng, sessionMu, inPool, outPool, nIn, nOut>>

blendVars == <<height, width, numCPU, maskCol, srcRGB, bpc, bi, wg, workers,
               dst, writes>>

cropVars == <<maskImg, cropImg, cropCfg, cropScale, cropPc, objBounds, cropRet>>

maskVars == <<srcImg, maskPc, maskRet>>

resizeVars == <<rsIn, rsBuf, rsDst, rsPc, rsI, rsSums>>

vars == <<otsuVars, poolVars, clientVars, engineVars, blendVars, cropVars,
          maskVars, resizeVars>>

\* What the actions of one component leave alone.
otherThanOtsu == <<poolVars, clientVars, engineVars, blendVars, cropVars,
                   maskVars,
                   resizeVars>>

otherThanPool == <<otsuVars, engineVars, blendVars, cropVars, maskVars,
                   resizeVars>>

otherThanEngine == <<otsuVars, clientVars, blendVars, cropVars, maskVars,
                   resizeVars>>

otherThanBlend == <<otsuVars, poolVars, clientVars, engineVars, cropVars,
                    maskVars,
                   resizeVars>>

otherThanCrop == <<otsuVars, poolVars, clientVars, engineVars, blendVars,
                   maskVars,
                   resizeVars>>

otherThanMask == <<otsuVars, poolVars, clientVars, engineVars, blendVars,
                   cropVars,
                   resizeVars>>

otherThanResize == <<otsuVars, poolVars, clientVars, engineVars, blendVars,
                     cropVars, maskVars>>

----------------------------------------------------------------------------
(* Bounds *)

MaxData == 4

MaxBufs == 2

MaxClients == 2

MaxCallers == 2

MaxTensors == 2

MaxDim == 1

MaxHeight == 3

MaxWidth == 2

MaxCPU == 2

\* Logits in quarters: -7, -6, -5.5, -4.75, 5, 6, 7 (bins 0, 1, 2 for -6, -5.5,
\* -4.75).
Logits == {-28, -24, -22, -19, 20, 24, 28}

\* Sizes requested by direct users of the pool.
PoolSizes == {50, 100, 200}

BufIds == 1..MaxBufs

Clients == 1..MaxClients

Callers == 1..MaxCallers

\* Mask values used for compositing: transparent, a blurred edge, opaque.
MaskLevels == {0, 43, 255}

\* Source colours used for compositing: opaque red and an opaque green in
\* an *image.RGBA, half-transparent red in an *image.NRGBA.
SrcColours ==
    {[kind |-> "RGBA", c |-> <<255, 0, 0, 255>>],
     [kind |-> "RGBA", c |-> <<10, 200, 30, 255>>],
     [kind |-> "NRGBA", c |-> <<255, 0, 0, 128>>]}

TensorIds == 1..MaxTensors

----------------------------------------------------------------------------
(* Arithmetic helpers *)

\* Go's float-to-int conversion truncates toward zero.
Trunc(a, b) == IF a >= 0 THEN a \div b ELSE -((-a) \div b)

Min2(a, b) == IF a < b THEN a ELSE b

Max2(a, b) == IF a > b THEN a ELSE b

\* color.RGBA{...}.RGBA(), color.NRGBA{...}.RGBA(), color.Gray{Y}.RGBA() and
\* color.Alpha{A}.RGBA() of the stored bytes c = <<R, G, B, A>>: the 16-bit
\* alpha-premultiplied <<r, g, b, a>>.  An *image.Gray stores Y in the first
\* byte, an *image.Alpha stores A in the fourth.
ColorRGBA16(kind, c) ==
    CASE kind = "RGBA" ->
           <<c[1] * 257, c[2] * 257, c[3] * 257, c[4] * 257>>
      [] kind = "NRGBA" ->
           <<(257 * c[1] * c[4]) \div 255, (257 * c[2] * c[4]) \div 255,
             (257 * c[3] * c[4]) \div 255, c[4] * 257>>
      [] kind = "Gray" ->
           <<c[1] * 257, c[1] * 257, c[1] * 257, 65535>>
      [] kind = "Paletted" ->
           <<c[1] * 257, c[2] * 257, c[3] * 257, c[4] * 257>>
      [] OTHER ->
           <<c[4] * 257, c[4] * 257, c[4] * 257, c[4] * 257>>

clamp(v, lo, hi) == IF v < lo THEN lo ELSE IF v > hi THEN hi ELSE v

----------------------------------------------------------------------------
(* float64 arithmetic (Go's float64 is IEEE 754 binary64, every operation
   rounded on its own to the nearest value, ties to even; no value of the
   program leaves the normal range).  A natural number is held as its limbs in base
   LimbBase, lowest first, without high zero limbs; a float64 is
   [neg, m, e] and stands for (-1)^neg * m * 2^e with m below 2^53 after
   every rounding. *)

LimbBase == 128 * 128

\* Number of binary digits of the limb n.
RECURSIVE LimbLen(_)
LimbLen(n) == IF n = 0 THEN 0 ELSE 1 + LimbLen(n \div 2)

LimbBits == LimbLen(LimbBase - 1)

\* Binary digits of a float64 significand.
MantissaBits == 53

\* a without its high zero limbs.
RECURSIVE BigNorm(_)
BigNorm(a) ==
    IF a = << >> THEN a
    ELSE IF a[Len(a)] = 0 THEN BigNorm(SubSeq(a, 1, Len(a) - 1))
    ELSE a

\* The limbs of the machine integer n >= 0.
RECURSIVE BigOf(_)
BigOf(n) ==
    IF n = 0 THEN << >>
    ELSE <<n % LimbBase>> \o BigOf(n \div LimbBase)

\* The machine integer held by a (it fits).
RECURSIVE BigToInt(_)
BigToInt(a) ==
    IF a = << >> THEN 0
    ELSE Head(a) + LimbBase * BigToInt(Tail(a))

RECURSIVE BigAddCarry(_, _, _)
BigAddCarry(a, b, c) ==
    IF a = << >> /\ b = << >> THEN (IF c = 0 THEN << >> ELSE <<c>>)
    ELSE LET x == IF a = << >> THEN 0 ELSE Head(a)
             y == IF b = << >> THEN 0 ELSE Head(b)
             s == x + y + c
         IN  <<s % LimbBase>>
               \o BigAddCarry(IF a = << >> THEN a ELSE Tail(a),
                              IF b = << >> THEN b ELSE Tail(b),
                              s \div LimbBase)

BigAdd(a, b) == BigAddCarry(a, b, 0)

\* a - b - c for a >= b + c, before the high zero limbs are dropped.
RECURSIVE BigSubBorrow(_, _, _)
BigSubBorrow(a, b, c) ==
    IF a = << >> THEN << >>
    ELSE LET y == IF b = << >> THEN 0 ELSE Head(b)
             s == Head(a) - y - c
         IN  <<s % LimbBase>>
               \o BigSubBorrow(Tail(a), IF b = << >> THEN b ELSE Tail(b),
                               IF s < 0 THEN 1 ELSE 0)

BigSub(a, b) == BigNorm(BigSubBorrow(a, b, 0))

\* -1, 0, 1 as a is below, equal to, above b.
RECURSIVE BigCmpFrom(_, _, _)
BigCmpFrom(a, b, i) ==
    IF i = 0 THEN 0
    ELSE IF a[i] < b[i] THEN -1
    ELSE IF a[i] > b[i] THEN 1
    ELSE BigCmpFrom(a, b, i - 1)

BigCmp(a, b) ==
    IF Len(a) < Len(b) THEN -1
    ELSE IF Len(a) > Len(b) THEN 1
    ELSE BigCmpFrom(a, b, Len(a))

\* a * k + c for one limb k.
RECURSIVE BigMulLimb(_, _, _)
BigMulLimb(a, k, c) ==
    IF a = << >> THEN (IF c = 0 THEN << >> ELSE <<c>>)
    ELSE LET s == Head(a) * k + c
         IN  <<s % LimbBase>> \o BigMulLimb(Tail(a), k, s \div LimbBase)

RECURSIVE BigMul(_, _)
BigMul(a, b) ==
    IF a = << >> \/ b = << >> THEN << >>
    ELSE BigAdd(BigMulLimb(a, Head(b), 0),
                LET rest == BigMul(a, Tail(b))
                IN  IF rest = << >> THEN rest ELSE <<0>> \o rest)

\* Quotient of a by the machine integer d, 0 < d < 2^17, highest limb
\* first; r is the remainder carried in from the limbs above.
RECURSIVE BigDivInt(_, _, _)
BigDivInt(a, d, r) ==
    IF a = << >> THEN [q |-> << >>, r |-> r]
    ELSE LET cur == r * LimbBase + a[Len(a)]
             low == BigDivInt(SubSeq(a, 1, Len(a) - 1), d, cur % d)
         IN  [q |-> low.q \o <<cur \div d>>, r |-> low.r]

\* a * 2^k and the integer part of a / 2^k.
BigShl(a, k) ==
    IF a = << >> THEN a
    ELSE [i \in 1..(k \div LimbBits) |-> 0]
           \o BigMulLimb(a, 2 ^ (k % LimbBits), 0)

BigShr(a, k) ==
    IF k \div LimbBits >= Len(a) THEN << >>
    ELSE BigNorm(BigDivInt(SubSeq(a, k \div LimbBits + 1, Len(a)),
                           2 ^ (k % LimbBits), 0).q)

\* Number of binary digits of a.
BigLen(a) ==
    IF a = << >> THEN 0 ELSE (Len(a) - 1) * LimbBits + LimbLen(a[Len(a)])

FloatZero == [neg |-> FALSE, m |-> << >>, e |-> 0]

\* float64(n) for a machine integer n of at most 31 bits: exact.
FloatOf(n) == [neg |-> n < 0, m |-> BigOf(IF n < 0 THEN -n ELSE n), e |-> 0]

\* The float64 nearest to (-1)^neg * (m + f) * 2^e, ties to the even
\* mantissa, where 0 < f < 1 if sticky and f = 0 otherwise.
FloatRound(neg, m, e, sticky) ==
    LET k    == BigLen(m) - MantissaBits
        q    == BigShr(m, k)
        rest == BigCmp(BigSub(m, BigShl(q, k)), BigShl(<<1>>, k - 1))
        up   == rest > 0 \/ (rest = 0 /\ (sticky \/ q[1] % 2 = 1))
    IN  IF k <= 0 THEN [neg |-> neg, m |-> m, e |-> e]
        ELSE [neg |-> neg, m |-> IF up THEN BigAdd(q, <<1>>) ELSE q,
              e |-> e + k]

\* a + b
FloatAdd(a, b) ==
    LET e  == Min2(a.e, b.e)
        x  == BigShl(a.m, a.e - e)
        y  == BigShl(b.m, b.e - e)
        c  == BigCmp(x, y)
    IN  IF a.neg = b.neg THEN FloatRound(a.neg, BigAdd(x, y), e, FALSE)
        ELSE IF c = 0 THEN FloatZero
        ELSE IF c > 0 THEN FloatRound(a.neg, BigSub(x, y), e, FALSE)
        ELSE FloatRound(b.neg, BigSub(y, x), e, FALSE)

\* a - b
FloatSub(a, b) == FloatAdd(a, [b EXCEPT !.neg = ~b.neg])

\* a * b
FloatMul(a, b) ==
    FloatRound(a.neg # b.neg, BigMul(a.m, b.m), a.e + b.e, FALSE)

\* a / b for b = float64(n), 0 < |n| < 2^17.
FloatDiv(a, b) ==
    LET k == Max2(0, MantissaBits + 2 + BigLen(b.m) - BigLen(a.m))
        d == BigDivInt(BigShl(a.m, k), BigToInt(b.m), 0)
    IN  FloatRound(a.neg # b.neg, BigNorm(d.q), a.e - b.e - k, d.r # 0)

\* a > b
FloatGreater(a, b) ==
    LET d == FloatSub(a, b)
    IN  d.m # << >> /\ ~d.neg

\* int(a): the integer part, toward zero (it fits a machine integer).
FloatTrunc(a) ==
    LET n == BigToInt(IF a.e >= 0 THEN BigShl(a.m, a.e)
                      ELSE BigShr(a.m, -a.e))
    IN  IF a.neg THEN -n ELSE n

----------------------------------------------------------------------------
(* Sigmoid lookup table: init() *)

\* 1/(1+exp(-v)) at v = i/255*12 - 6, computed in float32, in millionths;
\* entry i+1 of the sequence is the value for i.
SigmoidTable ==
  << 2473, 2591, 2716, 2846, 2983, 3127, 3277, 3434,
     3599, 3772, 3953, 4142, 4341, 4549, 4767, 4996,
     5235, 5486, 5749, 6024, 6313, 6615, 6932, 7263,
     7610, 7974, 8355, 8754, 9172, 9610, 10068, 10548,
     11051, 11577, 12128, 12705, 13309, 13942, 14604, 15297,
     16022, 16781, 17575, 18407, 19276, 20186, 21139, 22134,
     23176, 24266, 25405, 26597, 27843, 29145, 30507, 31930,
     33417, 34971, 36594, 38290, 40061, 41910, 43841, 45857,
     47960, 50155, 52445, 54834, 57324, 59921, 62627, 65447,
     68385, 71445, 74630, 77946, 81396, 84985, 88716, 92595,
     96626, 100812, 105159, 109670, 114350, 119203, 124233, 129444,
     134840, 140425, 146202, 152174, 158346, 164719, 171296, 178080,
     185072, 192275, 199690, 207317, 215157, 223210, 231475, 239952,
     248639, 257534, 266635, 275937, 285438, 295132, 305015, 315081,
     325324, 335736, 346311, 357040, 367914, 378924, 390060, 401312,
     412669, 424120, 435653, 447256, 458916, 470622, 482360, 494118,
     505882, 517640, 529378, 541084, 552744, 564347, 575880, 587331,
     598688, 609940, 621076, 632086, 642960, 653689, 664264, 674676,
     684919, 694985, 704868, 714563, 724063, 733365, 742466, 751361,
     760048, 768525, 776790, 784843, 792683, 800310, 807725, 814928,
     821920, 828704, 835281, 841654, 847826, 853798, 859575, 865160,
     870556, 875767, 880797, 885650, 890330, 894841, 899188, 903374,
     907405, 911284, 915015, 918604, 922054, 925370, 928555, 931615,
     934553, 937373, 940079, 942676, 945167, 947555, 949845, 952040,
     954143, 956159, 958090, 959939, 961710, 963406, 965029, 966583,
     968070, 969493, 970855, 972157, 973403, 974595, 975734, 976824,
     977866, 978862, 979814, 980724, 981593, 982425, 983219, 983978,
     984703, 985396, 986058, 986691, 987295, 987872, 988423, 988949,
     989452, 989932, 990390, 990828, 991246, 991645, 992026, 992390,
     992737, 993068, 993385, 993687, 993976, 994251, 994514, 994765,
     995004, 995233, 995451, 995659, 995858, 996047, 996228, 996401,
     996566, 996723, 996874, 997017, 997154, 997284, 997409, 997527 >>

\* The sigmoid of the i-th of the 256 points i/255*12 - 6, i in 0..255.
Sigmoid(i) == SigmoidTable[i + 1]

\* Size of the package-level array sigmoidLUT.
LutSize == 256

\* Number of iterations of the loop "for i := range 255" in init().
LutInitCount == 255

\* The array before init(): Go zero value.
LutZero == [i \in 0..(LutSize - 1) |-> 0]

\* The array after init(): entries written by the loop, the rest untouched.
LutAfterInit == [i \in 0..(LutSize - 1) |->
                    IF i < LutInitCount THEN Sigmoid(i) ELSE 0]

----------------------------------------------------------------------------
(* otsuThreshold *)

\* int((v+6.0)/12.0*255.0) for v = q/4.
LutIndex(q) == Trunc((q + 24) * 255, 48)

\* int(s * 255.0) followed by max(val, 0), min(val, 255).
BinOf(s) == Min2(Max2((s * 255) \div 1000000, 0), 255)

\* The table lookup of one logit fails when the index is outside the array.
IndexOk(q) == LutIndex(q) >= 0 /\ LutIndex(q) < LutSize

\* The histogram bin of one logit (the lookup is in range).
LogitBin(lut, q) == BinOf(lut[LutIndex(q)])

\* hist[b]: number of samples that fall in bin b.
Hist(lut, d) == [b \in 0..255 |->
                   Cardinality({k \in DOMAIN d : LogitBin(lut, d[k]) = b})]

\* sum of t*hist[t] over t in [lo, hi), summed by halves.
RECURSIVE WeightedSum(_, _, _)
WeightedSum(hist, lo, hi) ==
    IF hi <= lo THEN 0
    ELSE IF hi = lo + 1 THEN lo * hist[lo]
    ELSE LET mid == (lo + hi) \div 2
         IN  WeightedSum(hist, lo, mid) + WeightedSum(hist, mid, hi)

\* Number of candidate splits: both loops are "for t := range 255".
OtsuSplits == 255

\* mB := float64(sumB) / float64(wB); mF := float64(sum-sumB) / float64(wF);
\* varBetween := float64(wB) * float64(wF) * (mB - mF) * (mB - mF), the
\* product taken from the left.
VarBetween(wB, wF, sumB, sum) ==
    LET mB == FloatDiv(FloatOf(sumB), FloatOf(wB))
        mF == FloatDiv(FloatOf(sum - sumB), FloatOf(wF))
        d  == FloatSub(mB, mF)
    IN  FloatMul(FloatMul(FloatMul(FloatOf(wB), FloatOf(wF)), d), d)

\* varBetween > varMax
VarGreaterMutant(varBetween, varMax) == FloatGreater(varMax, varBetween)

VarGreater(varBetween, varMax) == FloatGreater(varBetween, varMax)

\* The locals before the first iteration:
\* sumB, wB, wF, varMax, threshold := 0, 0, 0, 0.0, 0.
OtsuStart ==
    [wB |-> 0, sumB |-> 0, varBetween |-> FloatZero, varMax |-> FloatZero,
     threshold |-> 0, stop |-> FALSE]

\* One iteration of the selection loop for split t.  st holds the loop's
\* locals and "stop" once the loop has hit break; no iteration runs after
\* the break.  When hist[t] = 0 the operands wB, wF and sumB are those of
\* the iteration before, which was past both early exits as well, so
\* varBetween is the value computed there and is taken over from st.
OtsuStep(hist, total, sum, t, st) ==
    LET wB == st.wB + hist[t]
        wF == total - wB
        sumB == st.sumB + t * hist[t]
        varBetween == IF hist[t] = 0 THEN st.varBetween
                      ELSE VarBetween(wB, wF, sumB, sum)
    IN  IF st.stop THEN st
        ELSE IF wB = 0 THEN [st EXCEPT !.wB = wB]
        ELSE IF wF = 0 THEN [st EXCEPT !.wB = wB, !.stop = TRUE]
        ELSE IF VarGreater(varBetween, st.varMax)
          THEN [wB |-> wB, sumB |-> sumB, varBetween |-> varBetween,
                varMax |-> varBetween, threshold |-> t, stop |-> FALSE]
          ELSE [st EXCEPT !.wB = wB, !.sumB = sumB,
                          !.varBetween = varBetween]

\* The iterations t = lo, lo+1, ..., hi-1 of the selection loop in order,
\* evaluated by halves: first [lo, mid), then, unless that half has hit
\* break, [mid, hi) on its result.
RECURSIVE OtsuLoop(_, _, _, _, _, _)
OtsuLoop(hist, total, sum, lo, hi, st) ==
    IF hi <= lo THEN st
    ELSE IF hi = lo + 1 THEN OtsuStep(hist, total, sum, lo, st)
    ELSE LET mid == (lo + hi) \div 2
             first == OtsuLoop(hist, total, sum, lo, mid, st)
         IN  IF first.stop THEN first
             ELSE OtsuLoop(hist, total, sum, mid, hi, first)

\* The numerator t of the value float32(t)/255.0 returned for field d.
otsuThreshold(lut, d) ==
    LET hist == Hist(lut, d)
        sum  == WeightedSum(hist, 0, OtsuSplits)
    IN  OtsuLoop(hist, Len(d), sum, 0, OtsuSplits, OtsuStart).threshold

\* The call panics (index out of range) on the first logit whose index is
\* outside the table.
OtsuPanics(d) == \E k \in DOMAIN d : ~IndexOk(d[k])

----------------------------------------------------------------------------
(* blurBufferPool: buffer.go *)

\* &blurBuffer{}: both slices nil.
NewBlurBuffer == [tmpLen |-> 0, tmpCap |-> 0, hLen |-> 0, hCap |-> 0]

\* The pool right after newBlurBufferPool(): nothing stored, nothing created.
EmptyPool == [b \in BufIds |-> 0]

NoBufs == [b \in BufIds |-> NewBlurBuffer]

\* if cap(buf.tmp) < size
NeedsGrow(b, size) == b.tmpCap < size

\* buf.tmp = make([]uint8, size)
MakeTmp(b, size) == [b EXCEPT !.tmpLen = size, !.tmpCap = size]

\* buf.hPass = make([]uint8, size)
MakeHPass(b, size) == [b EXCEPT !.hLen = size, !.hCap = size]

\* buf.tmp = buf.tmp[:size]
CutTmp(b, size) == [b EXCEPT !.tmpLen = size]

\* buf.hPass = buf.hPass[:size]
CutHPassKeepsLength(b, size) == b

CutHPass(b, size) == [b EXCEPT !.hLen = size]

\* s[:size] panics when size exceeds cap(s).
SlicePanics(capacity, size) == size > capacity

\* The body of get after pool.Get() when no other goroutine uses the object
\* meanwhile: grow both slices when tmp is too small, re-slice both
\* otherwise.
Reslice(b, size) ==
    IF NeedsGrow(b, size)
      THEN MakeHPass(MakeTmp(b, size), size)
      ELSE CutHPass(CutTmp(b, size), size)

ReslicePanics(b, size) ==
    /\ ~NeedsGrow(b, size)
    /\ (SlicePanics(b.tmpCap, size) \/ SlicePanics(b.hCap, size))

\* pool.Get() removes the object it returns from the pool.
PoolTakeKeepsItem(p, id) == p

PoolTake(p, id) == [p EXCEPT ![id] = p[id] - 1]

\* pool.Put(buf) stores the object once more.
PoolPut(p, id) == [p EXCEPT ![id] = p[id] + 1]

\* pool.Get(): an object stored in the pool, or, when the pool is empty or
\* chooses to ignore what it stores, a new object from New.  "new" tells which.
\* The number of objects New may create is capped at MaxBufs.
PoolGetChoices ==
    {[id |-> b, new |-> FALSE] : b \in {x \in BufIds : pool[x] > 0}}
      \cup (IF nBufs < MaxBufs THEN {[id |-> nBufs + 1, new |-> TRUE]} ELSE {})

\* blurBufferPool.get(size) drawing choice g: the pool and the object after it.
PoolAfterGet(g) == IF g.new THEN pool ELSE PoolTake(pool, g.id)

BufsAfterGet(g, size) ==
    [bufs EXCEPT ![g.id] = Reslice(IF g.new THEN NewBlurBuffer ELSE bufs[g.id], size)]

NBufsAfterGet(g) == IF g.new THEN nBufs + 1 ELSE nBufs

GetPanics(g, size) ==
    ReslicePanics(IF g.new THEN NewBlurBuffer ELSE bufs[g.id], size)

----------------------------------------------------------------------------
(* Initial values of each component *)

IdleClient == [pc |-> "idle", buf |-> 0, size |-> 0]

IdleCaller == [op |-> "none", pc |-> "idle", w |-> 0, h |-> 0, buf |-> 0,
               tin |-> 0, tout |-> 0, err |-> FALSE, result |-> "none"]

\* The sigmoid table after process initialization, with no Otsu call.
OtsuUnused ==
    /\ sigmoidLUT = LutAfterInit
    /\ lutReady = TRUE
    /\ data = << >>
    /\ otsuStatus = "idle"
    /\ otsuT = 0

\* The pool as newBlurBufferPool() leaves it.
BlurPoolNew ==
    /\ bufs = NoBufs
    /\ nBufs = 0
    /\ pool = EmptyPool

\* No direct user of the pool.
ClientsUnused ==
    /\ cl = [c \in Clients |-> IdleClient]
    /\ retMax = 0

\* The engine as NewRemBG leaves it (mutex unlocked, tensor pools empty),
\* with no call in progress.
EngineUnused ==
    /\ eng = [c \in Callers |-> IdleCaller]
    /\ sessionMu = 0
    /\ inPool = {}
    /\ outPool = {}
    /\ nIn = 0
    /\ nOut = 0

\* No compositing call.
BlendUnused ==
    /\ height = 0
    /\ width = 0
    /\ numCPU = 1
    /\ maskCol = << >>
    /\ srcRGB = [kind |-> "RGBA", c |-> <<0, 0, 0, 0>>]
    /\ bpc = "done"
    /\ bi = 0
    /\ wg = 0
    /\ workers = << >>
    /\ dst = << >>
    /\ writes = << >>

\* A nil *image.Gray.
NilMask == [nil |-> TRUE, min |-> <<0, 0>>, w |-> 0, h |-> 0, pix |-> << >>]

\* The zero objectBounds{} and found = false.
ZeroBounds == [found |-> FALSE, MinX |-> 0, MinY |-> 0, MaxX |-> 0, MaxY |-> 0,
               Width |-> 0, Height |-> 0, CenterX |-> 0, CenterY |-> 0]

\* Nothing returned yet.
NoCropRet == [err |-> "none", image |-> FALSE, detected |-> FALSE, margin |-> 0,
              rect |-> <<0, 0, 0, 0>>, dx |-> 0, dy |-> 0]

DefaultConfig == [Margin |-> 0, MarginPercent |-> 0, MinThreshold |-> 0,
                  SquareCrop |-> FALSE]

\* No crop call.
CropUnused ==
    /\ maskImg = NilMask
    /\ cropImg = [w |-> 0, h |-> 0]
    /\ cropCfg = DefaultConfig
    /\ cropScale = <<2, 2>>
    /\ cropPc = "returned"
    /\ objBounds = ZeroBounds
    /\ cropRet = NoCropRet

NoImage ==
    [kind |-> "Gray", w |-> 0, h |-> 0, stride |-> 0, gap |-> 0, pix |-> << >>]

NoMaskRet == [strategy |-> "none", mask |-> << >>]

\* No mask call.
MaskUnused ==
    /\ srcImg = NoImage
    /\ maskPc = "done"
    /\ maskRet = NoMaskRet

NoSums == [pass |-> "none", at |-> 0, sums |-> << >>]

\* No resizeGrayBlur5O call.
ResizeUnused ==
    /\ rsIn = [src |-> [w |-> 0, h |-> 0, pix |-> << >>], w |-> 0, h |-> 0]
    /\ rsBuf = [tmp |-> << >>, hPass |-> << >>]
    /\ rsDst = << >>
    /\ rsPc = "done"
    /\ rsI = 0
    /\ rsSums = NoSums

----------------------------------------------------------------------------
(* Specification SpecPool: concurrent direct users of get and put *)

InitPool ==
    /\ BlurPoolNew
    /\ cl = [c \in Clients |-> IdleClient]
    /\ retMax = 0
    /\ OtsuUnused
    /\ EngineUnused
    /\ BlendUnused
    /\ CropUnused
    /\ MaskUnused
    /\ ResizeUnused

\* Client c calls pool.get(size).  The statements of get run one at a time
\* and nothing but pool.Get() itself is synchronised, so other goroutines
\* run between them.  buffer.go:25, buf := p.pool.Get().(*blurBuffer):
ClientGetDraw(c, size) ==
    /\ cl[c].pc = "idle"
    /\ \E g \in PoolGetChoices :
         /\ pool' = PoolAfterGet(g)
         /\ nBufs' = NBufsAfterGet(g)
         /\ bufs' = IF g.new THEN [bufs EXCEPT ![g.id] = NewBlurBuffer]
                    ELSE bufs
         /\ cl' = [cl EXCEPT ![c] =
                     [pc |-> "check", buf |-> g.id, size |-> size]]
    /\ UNCHANGED retMax
    /\ UNCHANGED otherThanPool

\* buffer.go:26, if cap(buf.tmp) < size
ClientGetCheck(c) ==
    /\ cl[c].pc = "check"
    /\ cl' = [cl EXCEPT ![c].pc =
                IF NeedsGrow(bufs[cl[c].buf], cl[c].size)
                THEN "makeTmp" ELSE "cutTmp"]
    /\ UNCHANGED <<bufs, nBufs, pool, retMax>>
    /\ UNCHANGED otherThanPool

\* buffer.go:27
ClientGetMakeTmp(c) ==
    /\ cl[c].pc = "makeTmp"
    /\ bufs' = [bufs EXCEPT ![cl[c].buf] = MakeTmp(@, cl[c].size)]
    /\ cl' = [cl EXCEPT ![c].pc = "makeHPass"]
    /\ UNCHANGED <<nBufs, pool, retMax>>
    /\ UNCHANGED otherThanPool

\* buffer.go:28, then return buf
ClientGetMakeHPass(c) ==
    /\ cl[c].pc = "makeHPass"
    /\ bufs' = [bufs EXCEPT ![cl[c].buf] = MakeHPass(@, cl[c].size)]
    /\ cl' = [cl EXCEPT ![c].pc = "holding"]
    /\ UNCHANGED <<nBufs, pool, retMax>>
    /\ UNCHANGED otherThanPool

\* buffer.go:30
ClientGetCutTmp(c) ==
    /\ cl[c].pc = "cutTmp"
    /\ IF SlicePanics(bufs[cl[c].buf].tmpCap, cl[c].size)
         THEN /\ bufs' = bufs
              /\ cl' = [cl EXCEPT ![c].pc = "panicked"]
         ELSE /\ bufs' = [bufs EXCEPT ![cl[c].buf] = CutTmp(@, cl[c].size)]
              /\ cl' = [cl EXCEPT ![c].pc = "cutHPass"]
    /\ UNCHANGED <<nBufs, pool, retMax>>
    /\ UNCHANGED otherThanPool

\* buffer.go:31, then return buf
ClientGetCutHPass(c) ==
    /\ cl[c].pc = "cutHPass"
    /\ IF SlicePanics(bufs[cl[c].buf].hCap, cl[c].size)
         THEN /\ bufs' = bufs
              /\ cl' = [cl EXCEPT ![c].pc = "panicked"]
         ELSE /\ bufs' = [bufs EXCEPT ![cl[c].buf] = CutHPass(@, cl[c].size)]
              /\ cl' = [cl EXCEPT ![c].pc = "holding"]
    /\ UNCHANGED <<nBufs, pool, retMax>>
    /\ UNCHANGED otherThanPool

\* pool.put(buf) by the client that borrowed buf, once per borrow as every
\* caller in the repository does (defer r.blurPool.put(buf), crop_test.go:377).
ClientPut(c) ==
    /\ cl[c].pc = "holding"
    /\ pool' = PoolPut(pool, cl[c].buf)
    /\ retMax' = Max2(retMax, cl[c].size)
    /\ cl' = [cl EXCEPT ![c] = IdleClient]
    /\ UNCHANGED <<bufs, nBufs>>
    /\ UNCHANGED otherThanPool

NextPool ==
    \/ \E c \in Clients, size \in PoolSizes : ClientGetDraw(c, size)
    \/ \E c \in Clients : ClientGetCheck(c)
    \/ \E c \in Clients : ClientGetMakeTmp(c)
    \/ \E c \in Clients : ClientGetMakeHPass(c)
    \/ \E c \in Clients : ClientGetCutTmp(c)
    \/ \E c \in Clients : ClientGetCutHPass(c)
    \/ \E c \in Clients : ClientPut(c)

SpecPool == InitPool /\ [][NextPool]_vars

----------------------------------------------------------------------------
(* resizeGrayBlur5O: which buffer cells the two blur passes touch *)

\* window := 5
Window == 5

\* radius := window / 2
Radius == Window \div 2

\* Indices of tmp and hPass used by the horizontal pass for a w x h target.
HPassIndices(w, h) ==
    {y * w + clamp(k, 0, w - 1) : y \in 0..(h - 1), k \in (-Radius)..Radius}
      \cup {y * w : y \in 0..(h - 1)}
      \cup UNION {{y * w + Min2(x + Radius, w - 1),
                   y * w + Max2(x - Radius - 1, 0),
                   y * w + x} : y \in 0..(h - 1), x \in 1..(w - 1)}

\* Indices of hPass used by the vertical pass.
VPassIndices(w, h) ==
    {clamp(k, 0, h - 1) * w + x : x \in 0..(w - 1), k \in (-Radius)..Radius}
      \cup UNION {{Min2(y + Radius, h - 1) * w + x,
                   Max2(y - Radius - 1, 0) * w + x} : x \in 0..(w - 1), y \in 1..(h - 1)}

\* The body fails part-way (index out of range) when a pass uses a cell
\* outside the borrowed slices of length w*h.
ResizePanics(w, h) ==
    \E i \in HPassIndices(w, h) \cup VPassIndices(w, h) : i < 0 \/ i >= w * h

\* "defer r.blurPool.put(buf)": the put runs on normal return and on panic.
PutOnlyOnNormalReturn(panicked) == ~panicked

DeferredPutRuns(panicked) == TRUE

----------------------------------------------------------------------------
(* Specification SpecEngine: concurrent callers of one RemBG *)

\* sessionMu.Lock() proceeds only when the mutex is unlocked.
MutexAlwaysFree(mu) == TRUE

MutexFree(mu) == mu = 0

\* sync.Pool.Get on a tensor pool: a stored tensor or a new one (capped).
\* Tensors of one pool are interchangeable, so of the stored ones the one
\* with the least identifier stands for any.
TensorChoices(stored, created) ==
    {[id |-> t, new |-> FALSE] : t \in {x \in stored : \A y \in stored : x <= y}}
      \cup (IF created < MaxTensors THEN {[id |-> created + 1, new |-> TRUE]} ELSE {})

InitEngine ==
    /\ eng = [c \in Callers |-> IdleCaller]
    /\ sessionMu = 0
    /\ inPool = {}
    /\ outPool = {}
    /\ nIn = 0
    /\ nOut = 0
    /\ BlurPoolNew
    /\ ClientsUnused
    /\ OtsuUnused
    /\ BlendUnused
    /\ CropUnused
    /\ MaskUnused
    /\ ResizeUnused

\* The public methods that borrow both tensors and run the inference.
TensorOps == {"RemoveBackground", "SmartCrop"}

\* inputTensor := r.tensorPool.getInput(), the first pool access of the
\* method op.
BorrowInput(c, op) ==
    /\ eng[c].pc = "idle"
    /\ \E gi \in TensorChoices(inPool, nIn) :
         /\ inPool' = inPool \ {gi.id}
         /\ nIn' = IF gi.new THEN nIn + 1 ELSE nIn
         /\ eng' = [eng EXCEPT ![c] =
                       [IdleCaller EXCEPT !.op = op, !.pc = "getOutput",
                                          !.tin = gi.id]]
    /\ UNCHANGED <<sessionMu, outPool, nOut, poolVars>>
    /\ UNCHANGED otherThanEngine

\* RemoveBackground(img) begins.
StartRemove(c) == BorrowInput(c, "RemoveBackground")

\* SmartCrop(img, config) begins (the nil config is replaced first).
StartSmartCrop(c) == BorrowInput(c, "SmartCrop")

\* outputTensor := r.tensorPool.getOutput(), and the deferred function that
\* puts both tensors back is registered.
GetOutput(c) ==
    /\ eng[c].pc = "getOutput"
    /\ \E go \in TensorChoices(outPool, nOut) :
         /\ outPool' = outPool \ {go.id}
         /\ nOut' = IF go.new THEN nOut + 1 ELSE nOut
         /\ eng' = [eng EXCEPT ![c].pc = "prepare", ![c].tout = go.id]
    /\ UNCHANGED <<sessionMu, inPool, nIn, poolVars>>
    /\ UNCHANGED otherThanEngine

\* imaging.Resize, imaging.Clone and the loop that fills the input tensor.
\* For an image with empty bounds imaging.Resize returns an empty NRGBA and
\* the first row slice pix[0 : inputSize*4] panics: the call ends before
\* RunInference and the deferred function puts both tensors back.
Prepare(c, empty) ==
    /\ eng[c].pc = "prepare"
    /\ inPool' = IF empty THEN inPool \cup {eng[c].tin} ELSE inPool
    /\ outPool' = IF empty THEN outPool \cup {eng[c].tout} ELSE outPool
    /\ eng' = [eng EXCEPT ![c] =
                  IF empty THEN [IdleCaller EXCEPT !.result = "panic"]
                  ELSE [eng[c] EXCEPT !.pc = "lock"]]
    /\ UNCHANGED <<sessionMu, nIn, nOut, poolVars>>
    /\ UNCHANGED otherThanEngine

\* A direct call of RunInference.
StartInference(c) ==
    /\ eng[c].pc = "idle"
    /\ eng' = [eng EXCEPT ![c] =
                  [IdleCaller EXCEPT !.op = "RunInference", !.pc = "lock"]]
    /\ UNCHANGED <<sessionMu, inPool, outPool, nIn, nOut, poolVars>>
    /\ UNCHANGED otherThanEngine

\* r.sessionMu.Lock()
Lock(c) ==
    /\ eng[c].pc = "lock"
    /\ MutexFree(sessionMu)
    /\ sessionMu' = c
    /\ eng' = [eng EXCEPT ![c].pc = "locked"]
    /\ UNCHANGED <<inPool, outPool, nIn, nOut, poolVars>>
    /\ UNCHANGED otherThanEngine

\* Entry to r.session.Run(input, output).
RunBegin(c) ==
    /\ eng[c].pc = "locked"
    /\ eng' = [eng EXCEPT ![c].pc = "running"]
    /\ UNCHANGED <<sessionMu, inPool, outPool, nIn, nOut, poolVars>>
    /\ UNCHANGED otherThanEngine

\* r.session.Run returns, with or without an error.
RunEnd(c, failed) ==
    /\ eng[c].pc = "running"
    /\ eng' = [eng EXCEPT ![c].pc = "unlock", ![c].err = failed]
    /\ UNCHANGED <<sessionMu, inPool, outPool, nIn, nOut, poolVars>>
    /\ UNCHANGED otherThanEngine

\* r.sessionMu.Unlock()
Unlock(c) ==
    /\ eng[c].pc = "unlock"
    /\ sessionMu' = 0
    /\ eng' = [eng EXCEPT ![c].pc = "ran"]
    /\ UNCHANGED <<inPool, outPool, nIn, nOut, poolVars>>
    /\ UNCHANGED otherThanEngine

\* RunInference returns err to a direct caller.
InferenceReturn(c) ==
    /\ eng[c].pc = "ran"
    /\ eng[c].op = "RunInference"
    /\ eng' = [eng EXCEPT ![c] =
                  [IdleCaller EXCEPT !.result = IF eng[c].err THEN "error" ELSE "ok"]]
    /\ UNCHANGED <<sessionMu, inPool, outPool, nIn, nOut, poolVars>>
    /\ UNCHANGED otherThanEngine

\* The caller record once its call has ended with the given result.
Ended(result) == [IdleCaller EXCEPT !.result = result]

RemoveFailKeepsTensors(c) ==
    /\ eng[c].pc = "ran"
    /\ eng[c].op \in TensorOps
    /\ eng[c].err
    /\ eng' = [eng EXCEPT ![c] = Ended("inference failed: error")]
    /\ UNCHANGED <<sessionMu, inPool, outPool, nIn, nOut, poolVars>>
    /\ UNCHANGED otherThanEngine

\* "if err != nil { return nil, fmt.Errorf("inference failed: %w", err) }":
\* RemoveBackground (and SmartCrop, by the same statement) returns no image
\* and the wrapped error; the deferred function puts both tensors back.
RemoveFail(c) ==
    /\ eng[c].pc = "ran"
    /\ eng[c].op \in TensorOps
    /\ eng[c].err
    /\ inPool' = inPool \cup {eng[c].tin}
    /\ outPool' = outPool \cup {eng[c].tout}
    /\ eng' = [eng EXCEPT ![c] = Ended("inference failed: error")]
    /\ UNCHANGED <<sessionMu, nIn, nOut, poolVars>>
    /\ UNCHANGED otherThanEngine

\* otsuThreshold(data) and the binarisation.  otsuThreshold panics when a
\* logit of the output falls outside the table (see OtsuPanics); the panic
\* leaves the method, whose deferred function puts both tensors back.
\* RemoveBackground goes on to the upsampler, SmartCrop to the crop.
Threshold(c, panics) ==
    /\ eng[c].pc = "ran"
    /\ eng[c].op \in TensorOps
    /\ ~eng[c].err
    /\ inPool' = IF panics THEN inPool \cup {eng[c].tin} ELSE inPool
    /\ outPool' = IF panics THEN outPool \cup {eng[c].tout} ELSE outPool
    /\ eng' = [eng EXCEPT ![c] =
                  IF panics THEN Ended("panic")
                  ELSE [eng[c] EXCEPT !.pc = IF eng[c].op = "SmartCrop"
                                              THEN "crop" ELSE "resize"]]
    /\ UNCHANGED <<sessionMu, nIn, nOut, poolVars>>
    /\ UNCHANGED otherThanEngine

\* SmartCrop after the mask: detectObjectBounds finds an object and the crop
\* is returned, or it finds none and the call returns an error; the deferred
\* function puts both tensors back.
SmartCropFinish(c, found) ==
    /\ eng[c].pc = "crop"
    /\ inPool' = inPool \cup {eng[c].tin}
    /\ outPool' = outPool \cup {eng[c].tout}
    /\ eng' = [eng EXCEPT ![c] =
                  Ended(IF found THEN "ok" ELSE "no object detected in image")]
    /\ UNCHANGED <<sessionMu, nIn, nOut, poolVars>>
    /\ UNCHANGED otherThanEngine

\* The caller record after blurPool.get; "getPanicked" if get failed.
Borrowed(c, op, g, w, h) ==
    IF GetPanics(g, w * h)
      THEN [eng[c] EXCEPT !.pc = "getPanicked"]
      ELSE [eng[c] EXCEPT !.op = op, !.pc = "blur", !.buf = g.id,
                          !.w = w, !.h = h, !.result = "none"]

\* resizeGrayBlur5O called from RemoveBackground with the size w x h of the
\* (non-empty) image, up to "defer r.blurPool.put(buf)": borrow a buffer of
\* size newW*newH.  Every call puts its buffer back once, so the buffer drawn is
\* used by this call alone and the statements of get run as one step.
RemoveResize(c, w, h) ==
    /\ eng[c].pc = "resize"
    /\ \E g \in PoolGetChoices :
         /\ pool' = PoolAfterGet(g)
         /\ nBufs' = NBufsAfterGet(g)
         /\ bufs' = IF GetPanics(g, w * h) THEN bufs ELSE BufsAfterGet(g, w * h)
         /\ eng' = [eng EXCEPT ![c] = Borrowed(c, "RemoveBackground", g, w, h)]
    /\ UNCHANGED <<sessionMu, inPool, outPool, nIn, nOut>>
    /\ UNCHANGED otherThanEngine

\* A direct call resizeGrayBlur5O(src, w, h), up to the deferred put.
StartResize(c, w, h) ==
    /\ eng[c].pc = "idle"
    /\ \E g \in PoolGetChoices :
         /\ pool' = PoolAfterGet(g)
         /\ nBufs' = NBufsAfterGet(g)
         /\ bufs' = IF GetPanics(g, w * h) THEN bufs ELSE BufsAfterGet(g, w * h)
         /\ eng' = [eng EXCEPT ![c] = Borrowed(c, "resize", g, w, h)]
    /\ UNCHANGED <<sessionMu, inPool, outPool, nIn, nOut>>
    /\ UNCHANGED otherThanEngine

\* The body of resizeGrayBlur5O: resize and the two blur passes, which run
\* to the end or panic part-way.
Blur(c) ==
    /\ eng[c].pc = "blur"
    /\ eng' = [eng EXCEPT ![c].pc = IF ResizePanics(eng[c].w, eng[c].h)
                                      THEN "blurPanicked" ELSE "blurred"]
    /\ UNCHANGED <<sessionMu, inPool, outPool, nIn, nOut, poolVars>>
    /\ UNCHANGED otherThanEngine

\* resizeGrayBlur5O ends: the deferred put runs.  A direct call is over.  In
\* RemoveBackground a normal return goes on to blendParallel, and a panic
\* leaves RemoveBackground too, whose deferred function returns the tensors.
BlurExit(c) ==
    /\ eng[c].pc \in {"blurred", "blurPanicked"}
    /\ LET panicked == eng[c].pc = "blurPanicked"
           inRemove == eng[c].op = "RemoveBackground"
       IN  /\ pool' = IF DeferredPutRuns(panicked)
                        THEN PoolPut(pool, eng[c].buf) ELSE pool
           /\ eng' = [eng EXCEPT ![c] =
                IF inRemove /\ ~panicked
                  THEN [eng[c] EXCEPT !.buf = 0, !.w = 0, !.h = 0, !.pc = "blend"]
                  ELSE Ended(IF panicked THEN "panic" ELSE "ok")]
           /\ inPool' = IF inRemove /\ panicked
                          THEN inPool \cup {eng[c].tin} ELSE inPool
           /\ outPool' = IF inRemove /\ panicked
                           THEN outPool \cup {eng[c].tout} ELSE outPool
    /\ UNCHANGED <<bufs, nBufs, sessionMu, nIn, nOut>>
    /\ UNCHANGED otherThanEngine

\* blendParallel(output, img, resizedMask) and "return output, nil"; the
\* deferred function puts both tensors back.
RemoveFinish(c) ==
    /\ eng[c].pc = "blend"
    /\ inPool' = inPool \cup {eng[c].tin}
    /\ outPool' = outPool \cup {eng[c].tout}
    /\ eng' = [eng EXCEPT ![c] = Ended("ok")]
    /\ UNCHANGED <<sessionMu, nIn, nOut, poolVars>>
    /\ UNCHANGED otherThanEngine

NextEngine ==
    \/ \E c \in Callers : StartRemove(c)
    \/ \E c \in Callers : StartSmartCrop(c)
    \/ \E c \in Callers : GetOutput(c)
    \/ \E c \in Callers, empty \in BOOLEAN : Prepare(c, empty)
    \/ \E c \in Callers : StartInference(c)
    \/ \E c \in Callers : Lock(c)
    \/ \E c \in Callers : RunBegin(c)
    \/ \E c \in Callers, failed \in BOOLEAN : RunEnd(c, failed)
    \/ \E c \in Callers : Unlock(c)
    \/ \E c \in Callers : InferenceReturn(c)
    \/ \E c \in Callers : RemoveFail(c)
    \/ \E c \in Callers, panics \in BOOLEAN : Threshold(c, panics)
    \/ \E c \in Callers, found \in BOOLEAN : SmartCropFinish(c, found)
    \/ \E c \in Callers, w \in 1..MaxDim, h \in 1..MaxDim : RemoveResize(c, w, h)
    \/ \E c \in Callers, w \in 0..MaxDim, h \in 0..MaxDim : StartResize(c, w, h)
    \/ \E c \in Callers : Blur(c)
    \/ \E c \in Callers : BlurExit(c)
    \/ \E c \in Callers : RemoveFinish(c)

SpecEngine == InitEngine /\ [][NextEngine]_vars

----------------------------------------------------------------------------
(* blendParallel *)

\* The pixel positions <<x, y>> of a w x h image with origin (0, 0).
Pixels(w, h) == (0..(w - 1)) \X (0..(h - 1))

ChunkRoundedDown(h, n) == h \div n

\* chunk := (bounds.Dy() + numCPU - 1) / numCPU
Chunk(h, n) == (h + n - 1) \div n

\* startY := i * chunk
StartY(i, h, n) == i * Chunk(h, n)

\* endY := min(startY+chunk, bounds.Dy())
EndY(i, h, n) == Min2(StartY(i, h, n) + Chunk(h, n), h)

\* uint8(alpha*float64(c) + (1-alpha)*255) with alpha = float64(m)/255.0 and
\* c the shifted channel rv>>8; the sum lies in [0, 256) and the conversion
\* drops its fraction.
BlendChannel(m, c) ==
    LET alpha == FloatDiv(FloatOf(m), FloatOf(255))
    IN  FloatTrunc(FloatAdd(FloatMul(alpha, FloatOf(c)),
                            FloatMul(FloatSub(FloatOf(1), alpha),
                                     FloatOf(255)))) % 256

\* rv>>8, gv>>8, bv>>8 with rv, gv, bv, _ := src.At(x, y).RGBA()
SrcHighBytes(src) ==
    LET c == ColorRGBA16(src.kind, src.c)
    IN  <<c[1] \div 256, c[2] \div 256, c[3] \div 256>>

\* color.RGBA{R: rOut, G: gOut, B: bOut, A: 255}
BlendPixel(m, rgb) ==
    <<BlendChannel(m, rgb[1]), BlendChannel(m, rgb[2]), BlendChannel(m, rgb[3]), 255>>

\* wg.Wait() returns when the counter is zero.
WaitReturnsAtOnce(n) == TRUE

WaitGroupDone(n) == n = 0

\* A goroutine started for rows [startY, endY): pos pixels set so far,
\* exited once the function has returned and wg.Go has called Done.
NewWorker(startY, endY) ==
    [startY |-> startY, endY |-> endY, pos |-> 0, exited |-> FALSE]

\* Number of pixels a worker sets.
WorkerTotal(wk) == (wk.endY - wk.startY) * width

\* The pixel a worker sets next: rows in order, columns in order in a row.
WorkerPixel(wk) == <<wk.pos % width, wk.startY + (wk.pos \div width)>>

----------------------------------------------------------------------------
(* Specification SpecBlend: one blendParallel(dst, src, mask) call *)

InitBlend ==
    /\ height \in 0..MaxHeight
    /\ width \in 1..MaxWidth
    /\ numCPU \in 1..MaxCPU
    /\ maskCol \in [0..(width - 1) -> MaskLevels]
    /\ srcRGB \in SrcColours
    /\ bpc = "spawn"
    /\ bi = 0
    /\ wg = 0
    /\ workers = << >>
    /\ dst = [p \in Pixels(width, height) |-> <<0, 0, 0, 0>>]
    /\ writes = [p \in Pixels(width, height) |-> 0]
    /\ OtsuUnused
    /\ BlurPoolNew
    /\ ClientsUnused
    /\ EngineUnused
    /\ CropUnused
    /\ MaskUnused
    /\ ResizeUnused

\* One loop iteration with a non-empty row range: two wg.Go calls, each
\* starting a goroutine over the same rows [startY, endY).
Spawn ==
    /\ bpc = "spawn"
    /\ bi < numCPU
    /\ StartY(bi, height, numCPU) < EndY(bi, height, numCPU)
    /\ LET wk == NewWorker(StartY(bi, height, numCPU), EndY(bi, height, numCPU))
       IN  workers' = Append(Append(workers, wk), wk)
    /\ wg' = wg + 2
    /\ bi' = bi + 1
    /\ UNCHANGED <<height, width, numCPU, maskCol, srcRGB, bpc, dst, writes>>
    /\ UNCHANGED otherThanBlend

\* One loop iteration with startY >= endY: continue.
SkipChunk ==
    /\ bpc = "spawn"
    /\ bi < numCPU
    /\ StartY(bi, height, numCPU) >= EndY(bi, height, numCPU)
    /\ bi' = bi + 1
    /\ UNCHANGED <<height, width, numCPU, maskCol, srcRGB, bpc, wg, workers, dst,
                   writes>>
    /\ UNCHANGED otherThanBlend

WorkerStepTagged(k) ==
    /\ k \in DOMAIN workers
    /\ workers[k].pos < WorkerTotal(workers[k])
    /\ LET p == WorkerPixel(workers[k])
       IN  /\ dst' = [dst EXCEPT ![p] = <<k, k, k, 255>>]
           /\ writes' = [writes EXCEPT ![p] = writes[p] + 1]
    /\ workers' = [workers EXCEPT ![k].pos = workers[k].pos + 1]
    /\ UNCHANGED <<height, width, numCPU, maskCol, srcRGB, bpc, bi, wg>>
    /\ UNCHANGED otherThanBlend

\* A goroutine sets its next pixel: dst.SetRGBA(x, y, ...).
WorkerStep(k) ==
    /\ k \in DOMAIN workers
    /\ workers[k].pos < WorkerTotal(workers[k])
    /\ LET p == WorkerPixel(workers[k])
       IN  /\ dst' = [dst EXCEPT ![p] =
                               BlendPixel(maskCol[p[1]], SrcHighBytes(srcRGB))]
           /\ writes' = [writes EXCEPT ![p] = writes[p] + 1]
    /\ workers' = [workers EXCEPT ![k].pos = workers[k].pos + 1]
    /\ UNCHANGED <<height, width, numCPU, maskCol, srcRGB, bpc, bi, wg>>
    /\ UNCHANGED otherThanBlend

\* A goroutine's function returns and wg.Go's wrapper calls wg.Done().
WorkerExit(k) ==
    /\ k \in DOMAIN workers
    /\ workers[k].pos = WorkerTotal(workers[k])
    /\ ~workers[k].exited
    /\ workers' = [workers EXCEPT ![k].exited = TRUE]
    /\ wg' = wg - 1
    /\ UNCHANGED <<height, width, numCPU, maskCol, srcRGB, bpc, bi, dst, writes>>
    /\ UNCHANGED otherThanBlend

\* After the loop: wg.Wait() returns and blendParallel returns.
Wait ==
    /\ bpc = "spawn"
    /\ bi = numCPU
    /\ WaitGroupDone(wg)
    /\ bpc' = "done"
    /\ UNCHANGED <<height, width, numCPU, maskCol, srcRGB, bi, wg, workers, dst,
                   writes>>
    /\ UNCHANGED otherThanBlend

NextBlend ==
    \/ Spawn
    \/ SkipChunk
    \/ \E k \in 1..(2 * MaxCPU) : WorkerStep(k)
    \/ \E k \in 1..(2 * MaxCPU) : WorkerExit(k)
    \/ Wait

SpecBlend == InitBlend /\ [][NextBlend]_vars

----------------------------------------------------------------------------
(* Specification SpecOtsu: process init, then one otsuThreshold call *)

DataFields == UNION {[1..n -> Logits] : n \in 0..MaxData}

InitOtsu ==
    /\ sigmoidLUT = LutZero
    /\ lutReady = FALSE
    /\ data \in DataFields
    /\ otsuStatus = "idle"
    /\ otsuT = 0
    /\ BlurPoolNew
    /\ ClientsUnused
    /\ EngineUnused
    /\ BlendUnused
    /\ CropUnused
    /\ MaskUnused
    /\ ResizeUnused

\* func init(): fills the table.
ProcInit ==
    /\ ~lutReady
    /\ sigmoidLUT' = LutAfterInit
    /\ lutReady' = TRUE
    /\ UNCHANGED <<data, otsuStatus, otsuT>>
    /\ UNCHANGED otherThanOtsu

\* One call otsuThreshold(data); the table is only read.
OtsuCall ==
    /\ lutReady
    /\ otsuStatus = "idle"
    /\ IF OtsuPanics(data)
         THEN otsuStatus' = "panicked" /\ otsuT' = 0
         ELSE otsuStatus' = "returned" /\ otsuT' = otsuThreshold(sigmoidLUT, data)
    /\ UNCHANGED <<sigmoidLUT, lutReady, data>>
    /\ UNCHANGED otherThanOtsu

NextOtsu == ProcInit \/ OtsuCall

SpecOtsu == InitOtsu /\ [][NextOtsu]_vars

----------------------------------------------------------------------------
(* Claims about the Otsu threshold and the sigmoid table (SpecOtsu) *)

\* The bins that hold at least one sample of the field (lookups in range).
NonEmptyBins == {LogitBin(sigmoidLUT, data[k]) : k \in DOMAIN data}

\* The histogram has at least two distinct non-empty bins.
TwoBins == Cardinality(NonEmptyBins) >= 2

\* C8 (as stated): for any field with at least two distinct non-empty bins
\* otsuThreshold returns a value strictly greater than 0 and strictly less
\* than 1, i.e. 0 < t < 255.
C8_Original ==
    (otsuStatus = "returned" /\ TwoBins) => (otsuT > 0 /\ otsuT < 255)

\* C8 (amended): for any field with at least two distinct non-empty bins on
\* which the call returns, the result is at least 0 and strictly less than 1,
\* and it is strictly greater than 0 whenever no sample falls in bin 0.
C8_Amended ==
    (otsuStatus = "returned" /\ TwoBins) =>
        /\ otsuT >= 0
        /\ otsuT < 255
        /\ (0 \notin NonEmptyBins => otsuT > 0)

\* A two-bin field without mass in bin 0 whose threshold is strictly inside.
C8_Witness ==
    /\ otsuStatus = "returned"
    /\ TwoBins
    /\ 0 \notin NonEmptyBins
    /\ otsuT > 0
    /\ otsuT < 255

\* C9: otsuThreshold maps every logit to a table index inside [0,255] and
\* the call never fails, whatever the input values.
C9_NeverFails == otsuStatus # "panicked"

\* C10: after process initialization every one of the 256 entries holds the
\* sigmoid of its point of [-6, 6] and the entries are non-decreasing.
C10_TablePopulated ==
    lutReady =>
        /\ \A i \in 0..(LutSize - 1) : sigmoidLUT[i] = Sigmoid(i)
        /\ \A i \in 0..(LutSize - 2) : sigmoidLUT[i] <= sigmoidLUT[i + 1]

----------------------------------------------------------------------------
(* Claims about the scratch-buffer pool (SpecPool) *)

\* Client c has drawn a buffer from the pool and not put it back.
Borrowing(c) == cl[c].pc \notin {"idle", "panicked"}

\* Client c completes a get in this step.
GetStep(c) == cl[c].pc \notin {"idle", "holding"} /\ cl'[c].pc = "holding"

\* C4: every borrow is put back once, and in every interleaving of gets and
\* puts a borrowed buffer is exclusively owned: no two borrowers hold the same
\* buffer, and a buffer that is held is not at the same time stored in the
\* pool for a later get.
C4_Exclusive ==
    /\ \A c1, c2 \in Clients :
         (c1 # c2 /\ Borrowing(c1) /\ Borrowing(c2))
            => cl[c1].buf # cl[c2].buf
    /\ \A c \in Clients : Borrowing(c) => pool[cl[c].buf] = 0

\* Two borrowers hold buffers at the same time, one of them a buffer that
\* went through the pool before.
C4_Witness ==
    /\ retMax > 0
    /\ \E c1, c2 \in Clients :
         /\ c1 # c2 /\ cl[c1].pc = "holding" /\ cl[c2].pc = "holding"
         /\ \E c \in {c1, c2} : bufs[cl[c].buf].tmpCap > cl[c].size

\* C6: once borrows of some sizes have been returned, every later get,
\* whatever size it asks for, yields a buffer whose capacity is not below the
\* largest returned size (the high-water mark).
C6_Original ==
    [][\A c \in Clients :
          GetStep(c) => bufs'[cl'[c].buf].tmpCap >= retMax]_vars

\* C7: whatever gets and puts of larger, smaller or equal sizes came before,
\* get(size) does not fail while re-slicing and returns a buffer with
\* len(tmp) = len(hPass) = size.
C7_Lengths ==
    [][\A c \in Clients :
          /\ cl'[c].pc # "panicked"
          /\ GetStep(c) => /\ bufs'[cl'[c].buf].tmpLen = cl'[c].size
                           /\ bufs'[cl'[c].buf].hLen = cl'[c].size]_vars

\* A get served by re-slicing a larger buffer, and one served by growing a
\* buffer that was returned with a smaller size.
C7_Witness ==
    /\ \E c \in Clients :
         /\ cl[c].pc = "holding"
         /\ bufs[cl[c].buf].tmpCap > cl[c].size
         /\ bufs[cl[c].buf].tmpLen = cl[c].size
         /\ bufs[cl[c].buf].hLen = cl[c].size
    /\ \E c \in Clients :
         /\ cl[c].pc = "holding"
         /\ bufs[cl[c].buf].tmpCap = cl[c].size
         /\ retMax > 0

----------------------------------------------------------------------------
(* Claims about the engine: session mutex and the upsampler's buffer (SpecEngine) *)

\* The callers currently inside session.Run.
InRun == {c \in Callers : eng[c].pc = "running"}

\* C3: at most one invocation of session.Run is in progress at any time, and
\* whoever is inside session.Run holds the session mutex.
C3_MutualExclusion ==
    /\ Cardinality(InRun) <= 1
    /\ \A c \in InRun : sessionMu = c

\* One caller is inside session.Run while another one, of the other kind of
\* call, waits at Lock.
C3_Witness ==
    \E c1, c2 \in Callers :
        /\ eng[c1].pc = "running"
        /\ eng[c2].pc = "lock"
        /\ eng[c1].op # eng[c2].op

\* C5: a buffer is borrowed only while a resizeGrayBlur5O call is in progress
\* and every call returns the buffer it borrowed exactly once, however it
\* ends: each buffer ever created is either held by exactly one call in
\* progress or stored in the pool exactly once, so when no call is in progress
\* no buffer remains borrowed.
C5_Returned ==
    /\ \A c \in Callers :
         eng[c].buf # 0 => eng[c].pc \in {"blur", "blurred", "blurPanicked"}
    /\ \A b \in BufIds :
         b <= nBufs => pool[b] + Cardinality({c \in Callers : eng[c].buf = b}) = 1

\* Only direct upsampler calls have run, one has ended by a panic part-way,
\* no call is in progress and the buffer is back in the pool.
C5_Witness ==
    /\ nIn = 0
    /\ nBufs = 1
    /\ pool[1] = 1
    /\ \A c \in Callers : eng[c].pc = "idle"
    /\ \E c \in Callers : eng[c].result = "panic"

\* Caller c is in RemoveBackground and RunInference has returned an error.
InferenceFailed(c) ==
    eng[c].op = "RemoveBackground" /\ eng[c].pc = "ran" /\ eng[c].err

\* C29: when the inference fails, RemoveBackground returns no image and an
\* error that carries the collaborator's failure, and nothing stays held:
\* both borrowed tensors are back in their pools and the session mutex is
\* not held by the caller, so that a later call can take them and proceed.
C29_FailureReleases ==
    [][\A c \in Callers :
          (InferenceFailed(c) /\ eng'[c] # eng[c]) =>
             /\ eng'[c].pc = "idle"
             /\ eng'[c].result = "inference failed: error"
             /\ eng[c].tin \in inPool'
             /\ eng[c].tout \in outPool'
             /\ eng'[c].tin = 0
             /\ eng'[c].tout = 0
             /\ eng'[c].buf = 0
             /\ sessionMu # c
             /\ sessionMu' # c]_vars

\* One caller's RemoveBackground has failed, and a later call by another
\* caller holds the only tensors ever created and the session mutex, and is
\* running the inference.
C29_Witness ==
    \E c1, c2 \in Callers :
        /\ c1 # c2
        /\ eng[c1].pc = "idle"
        /\ eng[c1].result = "inference failed: error"
        /\ eng[c2].op = "RemoveBackground"
        /\ eng[c2].pc = "running"
        /\ sessionMu = c2
        /\ nIn = 1
        /\ nOut = 1
        /\ eng[c2].tin = 1
        /\ eng[c2].tout = 1

----------------------------------------------------------------------------
(* Claims about the parallel compositor (SpecBlend) *)

\* The goroutines whose row range contains row y.
RowWorkers(y) ==
    {k \in DOMAIN workers : workers[k].startY <= y /\ y < workers[k].endY}

\* C1: every row is processed by exactly one worker exactly once: no row is
\* in the range of two workers, no destination pixel is set more than once,
\* and at return every row has had its one worker.
C1_OneWorkerPerRow ==
    /\ \A y \in 0..(height - 1) : Cardinality(RowWorkers(y)) <= 1
    /\ \A p \in DOMAIN writes : writes[p] <= 1
    /\ bpc = "done" => \A y \in 0..(height - 1) : Cardinality(RowWorkers(y)) = 1

\* C2: blendParallel returns only after every worker it started has finished:
\* at return no worker is still running and every destination pixel of every
\* row has been written.
C2_JoinBarrier ==
    bpc = "done" =>
        /\ \A k \in DOMAIN workers :
             workers[k].exited /\ workers[k].pos = WorkerTotal(workers[k])
        /\ \A p \in Pixels(width, height) : writes[p] >= 1 /\ dst[p][4] = 255

\* A call over several chunks has returned after its workers wrote pixels.
C2_Witness ==
    /\ bpc = "done"
    /\ height >= 2
    /\ Len(workers) >= 4
    /\ \A p \in Pixels(width, height) : writes[p] >= 1

\* C23: when blendParallel has returned, every destination pixel whose mask
\* value is 0 is white, every destination pixel whose mask value is 255 has
\* the source pixel's 8-bit R, G and B, and every destination pixel has
\* alpha 255, whichever worker wrote it.
C23_Composite ==
    bpc = "done" =>
        \A p \in Pixels(width, height) :
            /\ maskCol[p[1]] = 0 =>
                  <<dst[p][1], dst[p][2], dst[p][3]>> = <<255, 255, 255>>
            /\ maskCol[p[1]] = 255 =>
                  <<dst[p][1], dst[p][2], dst[p][3]>>
                     = <<srcRGB.c[1], srcRGB.c[2], srcRGB.c[3]>>
            /\ dst[p][4] = 255

\* What holds of C23 when the source pixels are opaque.
OpaqueSourceComposite ==
    (bpc = "done" /\ srcRGB.c[4] = 255) => C23_Composite

\* The rows of chunk i: [i*chunk, min((i+1)*chunk, height)).
ChunkRows(i) == StartY(i, height, numCPU)..(EndY(i, height, numCPU) - 1)

\* C24: whatever the height and the number of cores, the row ranges of
\* distinct chunk indices are pairwise disjoint, each non-empty range
\* starts where the previous one ends, and together they are exactly the
\* rows of the image.
C24_ChunksPartition ==
    /\ \A i, j \in 0..(numCPU - 1) :
          i # j => ChunkRows(i) \cap ChunkRows(j) = {}
    /\ \A i \in 1..(numCPU - 1) :
          ChunkRows(i) # {} =>
             StartY(i, height, numCPU) = EndY(i - 1, height, numCPU)
    /\ UNION {ChunkRows(i) : i \in 0..(numCPU - 1)} = 0..(height - 1)

\* A call with more cores than rows has returned: the last chunk was
\* skipped and the first one was given to workers.
C24_Witness ==
    /\ bpc = "done"
    /\ height >= 1
    /\ numCPU > height
    /\ ChunkRows(numCPU - 1) = {}
    /\ Len(workers) >= 2
    /\ workers[1].endY - workers[1].startY = Chunk(height, numCPU)

\* C30: the destination image blendParallel leaves is the same for every
\* interleaving of its workers and every number of cores: each pixel is a
\* function of the source and mask values of that pixel alone, even when
\* more than one worker has written it.
C30_Deterministic ==
    bpc = "done" =>
        \A p \in Pixels(width, height) :
            dst[p] = BlendPixel(maskCol[p[1]], SrcHighBytes(srcRGB))

\* A call on two cores has returned and a partly covered pixel was written
\* by two workers.
C30_Witness ==
    /\ bpc = "done"
    /\ numCPU = 2
    /\ \E p \in Pixels(width, height) :
          /\ writes[p] = 2
          /\ maskCol[p[1]] = 43
          /\ dst[p] = BlendPixel(43, SrcHighBytes(srcRGB))

----------------------------------------------------------------------------
(* detectObjectBounds and crop *)
(*                                                                         *)
(* Number representation.  scaleX and scaleY are multiples of 1/2 and are  *)
(* held as the integer 2*scale; MarginPercent is a multiple of 1/4 and is  *)
(* held as the integer 4*MarginPercent.  Products of such values with the  *)
(* small integers used here are exact in float64, so int(float64(v) * s)   *)
(* is the exact quotient truncated toward zero.                            *)

MaxMaskW == 2

MaxMaskH == 2

\* bounds.Min of the masks: at the origin, right of it, left of it.
MaskOrigins == {<<0, 0>>, <<1, 1>>, <<-2, -1>>}

MaskPixelValues == {0, 10}

Thresholds == {0, 10, 11}

Margins == {0, 1, 2}

\* MarginPercent 0, 0.25, 0.5 (quarters).
MarginPercents == {0, 1, 2}

\* <<scaleX, scaleY>>: (1.0, 1.0), (1.5, 1.0), (2.5, 2.5) (halves).
Scales == {<<2, 2>>, <<3, 2>>, <<5, 5>>}

\* <<bounds.Dx(), bounds.Dy()>> of the images; bounds.Min is the origin.
ImageSizes == {<<4, 4>>, <<8, 6>>}

SetMin(S) == CHOOSE v \in S : \A u \in S : v <= u

SetMax(S) == CHOOSE v \in S : \A u \in S : v >= u

\* The points of a rectangle with corner min and size w x h.
RectPoints(min, w, h) ==
    (min[1]..(min[1] + w - 1)) \X (min[2]..(min[2] + h - 1))

\* image.NewGray(rect) with the given pixel values.
GrayImage(min, w, h, pix) ==
    [nil |-> FALSE, min |-> min, w |-> w, h |-> h, pix |-> pix]

\* mask.GrayAt(x, y).Y >= minThreshold
QualifiesStrictly(v, minThreshold) == v > minThreshold

Qualifies(v, minThreshold) == v >= minThreshold

\* The scan of detectObjectBounds: minX, minY start at bounds.Max, maxX and
\* maxY start at 0, and every qualifying pixel updates the four of them.
detectObjectBounds(mask, minThreshold) ==
    LET q == {p \in RectPoints(mask.min, mask.w, mask.h) :
                 Qualifies(mask.pix[p], minThreshold)}
        minX == SetMin({mask.min[1] + mask.w} \cup {p[1] : p \in q})
        minY == SetMin({mask.min[2] + mask.h} \cup {p[2] : p \in q})
        maxX == SetMax({0} \cup {p[1] : p \in q})
        maxY == SetMax({0} \cup {p[2] : p \in q})
    IN  IF q = {} THEN ZeroBounds
        ELSE [found |-> TRUE, MinX |-> minX, MinY |-> minY,
              MaxX |-> maxX, MaxY |-> maxY,
              Width |-> maxX - minX, Height |-> maxY - minY,
              CenterX |-> minX + Trunc(maxX - minX, 2),
              CenterY |-> minY + Trunc(maxY - minY, 2)]

\* int(float64(v) * scale)
ScaleCoord(v, scale) == Trunc(v * scale, 2)

\* The bounds scaled from mask space to image space.
Scaled(ob, scale) ==
    LET minX == ScaleCoord(ob.MinX, scale[1])
        minY == ScaleCoord(ob.MinY, scale[2])
        maxX == ScaleCoord(ob.MaxX, scale[1])
        maxY == ScaleCoord(ob.MaxY, scale[2])
    IN  [MinX |-> minX, MinY |-> minY, MaxX |-> maxX, MaxY |-> maxY,
         Width |-> maxX - minX, Height |-> maxY - minY]

PercentMarginRounded(dim, percent) == (2 * dim * percent + 4) \div 8

\* int(float64(dim) * config.MarginPercent)
PercentMargin(dim, percent) == Trunc(dim * percent, 4)

\* margin := config.Margin; if config.MarginPercent > 0 { ... }
CropMargin(config, sc) ==
    IF config.MarginPercent > 0
    THEN Max2(config.Margin,
              Max2(PercentMargin(sc.Width, config.MarginPercent),
                   PercentMargin(sc.Height, config.MarginPercent)))
    ELSE config.Margin

ClippedMinSideOnly(sc, margin, origW, origH) ==
    <<Max2(0, sc.MinX - margin), Max2(0, sc.MinY - margin),
      Min2(origW, sc.MaxX), Min2(origH, sc.MaxY)>>

\* cropMinX, cropMinY, cropMaxX, cropMaxY before the square step.
Clipped(sc, margin, origW, origH) ==
    <<Max2(0, sc.MinX - margin), Max2(0, sc.MinY - margin),
      Min2(origW, sc.MaxX + margin), Min2(origH, sc.MaxY + margin)>>

\* if config.SquareCrop { ... }
Squared(r, origW, origH) ==
    LET cropW == r[3] - r[1]
        cropH == r[4] - r[2]
    IN  IF cropW > cropH
        THEN LET diff == cropW - cropH
             IN  <<r[1], Max2(0, r[2] - Trunc(diff, 2)),
                   r[3], Min2(origH, r[4] + Trunc(diff, 2))>>
        ELSE IF cropH > cropW
        THEN LET diff == cropH - cropW
             IN  <<Max2(0, r[1] - Trunc(diff, 2)), r[2],
                   Min2(origW, r[3] + Trunc(diff, 2)), r[4]>>
        ELSE r

\* image.Rect(x0, y0, x1, y1): the corners are put in order.
ImageRect(r) ==
    <<Min2(r[1], r[3]), Min2(r[2], r[4]), Max2(r[1], r[3]), Max2(r[2], r[4])>>

RectEmpty(r) == r[1] >= r[3] \/ r[2] >= r[4]

\* rect.Intersect(img.Bounds()): the zero rectangle when nothing is shared.
Intersect(r, origW, origH) ==
    LET i == <<Max2(r[1], 0), Max2(r[2], 0), Min2(r[3], origW), Min2(r[4], origH)>>
    IN  IF RectEmpty(i) THEN <<0, 0, 0, 0>> ELSE i

\* <<Dx, Dy>> of imaging.Crop(img, rect): the part of rect inside the image,
\* and an empty image when that part is empty.
CropSize(r, origW, origH) ==
    LET i == Intersect(ImageRect(r), origW, origH)
    IN  <<i[3] - i[1], i[4] - i[2]>>

\* The rectangle crop computes from found bounds.
CropRect(ob, config, scale, origW, origH) ==
    LET sc == Scaled(ob, scale)
        margin == CropMargin(config, sc)
        r == Clipped(sc, margin, origW, origH)
    IN  IF config.SquareCrop THEN Squared(r, origW, origH) ELSE r

----------------------------------------------------------------------------
(* Specification SpecCrop: one crop(img, maskImg, config, scaleX, scaleY) *)

Configs ==
    [Margin : Margins, MarginPercent : MarginPercents,
     MinThreshold : Thresholds, SquareCrop : BOOLEAN]

\* An n x n mask at the origin, 255 on the given points and 0 elsewhere.
MaskWith(n, lit) ==
    GrayImage(<<0, 0>>, n, n,
              [p \in RectPoints(<<0, 0>>, n, n) |-> IF p \in lit THEN 255 ELSE 0])

\* The calls made by TestCrop and TestSmartCropFromMask on a 100 x 100
\* image, and the same-resolution call with Margin 5.
TestCrops ==
    LET img == [w |-> 100, h |-> 100]
        low == MaskWith(10, (4..6) \X (4..6))
        full == MaskWith(100, (40..60) \X (40..60))
        cfg == [DefaultConfig EXCEPT !.MinThreshold = 10]
    IN  { [mask |-> low, img |-> img, config |-> cfg, scale |-> <<20, 20>>],
          [mask |-> low, img |-> img, config |-> [cfg EXCEPT !.Margin = 5],
           scale |-> <<20, 20>>],
          [mask |-> MaskWith(10, {<<4, 4>>, <<5, 4>>}), img |-> img,
           config |-> [cfg EXCEPT !.SquareCrop = TRUE], scale |-> <<20, 20>>],
          [mask |-> low, img |-> img,
           config |-> [cfg EXCEPT !.MarginPercent = 2], scale |-> <<20, 20>>],
          [mask |-> full, img |-> img, config |-> cfg, scale |-> <<2, 2>>],
          [mask |-> full, img |-> img, config |-> [cfg EXCEPT !.Margin = 5],
           scale |-> <<2, 2>>] }

InitCrop ==
    /\ \/ /\ \/ maskImg = NilMask
             \/ \E o \in MaskOrigins, w \in 0..MaxMaskW, h \in 0..MaxMaskH :
                   \E pix \in [RectPoints(o, w, h) -> MaskPixelValues] :
                      maskImg = GrayImage(o, w, h, pix)
          /\ cropImg \in {[w |-> sz[1], h |-> sz[2]] : sz \in ImageSizes}
          /\ cropCfg \in Configs
          /\ cropScale \in Scales
       \/ \E t \in TestCrops :
             /\ maskImg = t.mask
             /\ cropImg = t.img
             /\ cropCfg = t.config
             /\ cropScale = t.scale
    /\ cropPc = "enter"
    /\ objBounds = ZeroBounds
    /\ cropRet = NoCropRet
    /\ OtsuUnused
    /\ BlurPoolNew
    /\ ClientsUnused
    /\ EngineUnused
    /\ BlendUnused
    /\ MaskUnused
    /\ ResizeUnused

CropEnterWithoutNilCheck ==
    /\ cropPc = "enter"
    /\ cropRet' = cropRet
    /\ cropPc' = "detect"
    /\ UNCHANGED <<maskImg, cropImg, cropCfg, cropScale, objBounds>>
    /\ UNCHANGED otherThanCrop

\* if maskImg == nil { return nil, fmt.Errorf("mask image is nil") }
CropEnter ==
    /\ cropPc = "enter"
    /\ IF maskImg.nil
       THEN /\ cropRet' = [cropRet EXCEPT !.err = "mask image is nil"]
            /\ cropPc' = "returned"
       ELSE /\ cropRet' = cropRet
            /\ cropPc' = "detect"
    /\ UNCHANGED <<maskImg, cropImg, cropCfg, cropScale, objBounds>>
    /\ UNCHANGED otherThanCrop

\* objBounds, found := detectObjectBounds(maskImg, config.MinThreshold)
\* if !found { return nil, fmt.Errorf("no object detected in image") }
CropDetect ==
    /\ cropPc = "detect"
    /\ objBounds' = detectObjectBounds(maskImg, cropCfg.MinThreshold)
    /\ IF objBounds'.found
       THEN /\ cropRet' = [cropRet EXCEPT !.detected = TRUE]
            /\ cropPc' = "geometry"
       ELSE /\ cropRet' = [cropRet EXCEPT !.detected = TRUE,
                                          !.err = "no object detected in image"]
            /\ cropPc' = "returned"
    /\ UNCHANGED <<maskImg, cropImg, cropCfg, cropScale>>
    /\ UNCHANGED otherThanCrop

\* The rest of crop: scale, margin, clip, square, imaging.Crop.
CropGeometry ==
    /\ cropPc = "geometry"
    /\ LET sc == Scaled(objBounds, cropScale)
           r == CropRect(objBounds, cropCfg, cropScale, cropImg.w, cropImg.h)
           size == CropSize(r, cropImg.w, cropImg.h)
       IN  cropRet' = [cropRet EXCEPT !.image = TRUE,
                                      !.margin = CropMargin(cropCfg, sc),
                                      !.rect = r,
                                      !.dx = size[1], !.dy = size[2]]
    /\ cropPc' = "returned"
    /\ UNCHANGED <<maskImg, cropImg, cropCfg, cropScale, objBounds>>
    /\ UNCHANGED otherThanCrop

NextCrop == CropEnter \/ CropDetect \/ CropGeometry

SpecCrop == InitCrop /\ [][NextCrop]_vars

----------------------------------------------------------------------------
(* Claims about detectObjectBounds and crop (SpecCrop) *)

\* The x (i = 1) or y (i = 2) coordinates of the mask pixels >= MinThreshold.
QualifyingCoords(i) ==
    {p[i] : p \in {q \in RectPoints(maskImg.min, maskImg.w, maskImg.h) :
                      maskImg.pix[q] >= cropCfg.MinThreshold}}

AnyQualifying == ~maskImg.nil /\ QualifyingCoords(1) # {}

CropReturnedImage == cropPc = "returned" /\ cropRet.image

\* C11: detectObjectBounds reports "not found" exactly when no mask pixel is
\* >= minThreshold; crop then returns the "no object detected" error and no
\* image, and when some pixel qualifies crop does not return that error.
C11_NotFoundExactly ==
    /\ cropRet.detected => (objBounds.found <=> AnyQualifying)
    /\ (cropPc = "returned" /\ cropRet.detected /\ ~AnyQualifying)
          => (cropRet.err = "no object detected in image" /\ ~cropRet.image)
    /\ (cropPc = "returned" /\ AnyQualifying)
          => (cropRet.err = "none" /\ cropRet.image)

\* A returned crop whose mask has a pixel just below the threshold and none
\* at or above it.
C11_Witness ==
    /\ cropPc = "returned"
    /\ cropRet.err = "no object detected in image"
    /\ cropCfg.MinThreshold = 11
    /\ \E p \in RectPoints(maskImg.min, maskImg.w, maskImg.h) : maskImg.pix[p] = 10

\* C12: when an object is found, MinX, MaxX, MinY, MaxY are the minimum and
\* maximum x and y over exactly the pixels >= minThreshold, Width and Height
\* are Max - Min, and the center is the integer midpoint.
C12_SmallestRectangle ==
    objBounds.found =>
        /\ objBounds.MinX = SetMin(QualifyingCoords(1))
        /\ objBounds.MaxX = SetMax(QualifyingCoords(1))
        /\ objBounds.MinY = SetMin(QualifyingCoords(2))
        /\ objBounds.MaxY = SetMax(QualifyingCoords(2))
        /\ objBounds.Width = objBounds.MaxX - objBounds.MinX
        /\ objBounds.Height = objBounds.MaxY - objBounds.MinY
        /\ objBounds.CenterX = objBounds.MinX + (objBounds.Width \div 2)
        /\ objBounds.CenterY = objBounds.MinY + (objBounds.Height \div 2)

\* The scaled bounds of the current call.
ScaledNow == Scaled(objBounds, cropScale)

\* Neither the margin step nor the image cuts the rectangle.
NoClipping ==
    /\ ScaledNow.MinX - cropRet.margin >= 0
    /\ ScaledNow.MinY - cropRet.margin >= 0
    /\ ScaledNow.MaxX + cropRet.margin <= cropImg.w
    /\ ScaledNow.MaxY + cropRet.margin <= cropImg.h

PlainCrop ==
    /\ CropReturnedImage
    /\ ~cropCfg.SquareCrop
    /\ cropCfg.MarginPercent = 0
    /\ NoClipping

\* C13 as stated: with squareCrop off, marginPercent 0 and no clipping, the
\* returned image is (scaled width + 2*margin) x (scaled height + 2*margin).
C13_Original ==
    PlainCrop =>
        /\ cropRet.dx = ScaledNow.Width + 2 * cropCfg.Margin
        /\ cropRet.dy = ScaledNow.Height + 2 * cropCfg.Margin

\* C13 amended: the same, provided both of those extents are positive; when
\* either is zero the returned image is empty (0 x 0).  Bounds (40,40)-(60,60)
\* give 20 x 20 with margin 0 and 30 x 30 with margin 5.
C13_Amended ==
    PlainCrop =>
        LET ew == ScaledNow.Width + 2 * cropCfg.Margin
            eh == ScaledNow.Height + 2 * cropCfg.Margin
        IN  /\ (ew > 0 /\ eh > 0) => (cropRet.dx = ew /\ cropRet.dy = eh)
            /\ (ew = 0 \/ eh = 0) => (cropRet.dx = 0 /\ cropRet.dy = 0)
            /\ (ScaledNow.MinX = 40 /\ ScaledNow.MaxX = 60 /\
                ScaledNow.MinY = 40 /\ ScaledNow.MaxY = 60)
                  => /\ cropCfg.Margin = 0 => (cropRet.dx = 20 /\ cropRet.dy = 20)
                     /\ cropCfg.Margin = 5 => (cropRet.dx = 30 /\ cropRet.dy = 30)

\* The same-resolution call with Margin 5 has returned a 30 x 30 image.
C13_Witness ==
    /\ PlainCrop
    /\ cropScale = <<2, 2>>
    /\ ScaledNow.MinX = 40 /\ ScaledNow.MaxX = 60
    /\ cropCfg.Margin = 5
    /\ cropRet.dx = 30 /\ cropRet.dy = 30

\* The rectangle expanded by m on all four sides, clipped to the image.
ExpandedBy(m) ==
    <<Max2(0, ScaledNow.MinX - m), Max2(0, ScaledNow.MinY - m),
      Min2(cropImg.w, ScaledNow.MaxX + m), Min2(cropImg.h, ScaledNow.MaxY + m)>>

PercentCrop ==
    /\ CropReturnedImage
    /\ cropCfg.MarginPercent > 0
    /\ ~cropCfg.SquareCrop

\* round(MarginPercent x dim) for dim >= 0, halves away from zero.
RoundedPercent(dim) == (2 * dim * cropCfg.MarginPercent + 4) \div 8

\* int(MarginPercent x dim) for dim >= 0.
TruncatedPercent(dim) == (dim * cropCfg.MarginPercent) \div 4

\* C14 as stated: with marginPercent > 0 the margin on all four sides is the
\* larger of round(marginPercent x width) and round(marginPercent x height).
C14_Original ==
    PercentCrop =>
        cropRet.rect = ExpandedBy(Max2(RoundedPercent(ScaledNow.Width),
                                       RoundedPercent(ScaledNow.Height)))

\* C14 amended: the two percent margins are truncated toward zero, and the
\* larger of them, or Margin when that is larger still, is applied to all
\* four sides; 0.5 on a 20 x 20 object with Margin 0 gives 40 x 40.
C14_Amended ==
    PercentCrop =>
        LET m == Max2(cropCfg.Margin,
                      Max2(TruncatedPercent(ScaledNow.Width),
                           TruncatedPercent(ScaledNow.Height)))
        IN  /\ cropRet.rect = ExpandedBy(m)
            /\ (ScaledNow.Width = 20 /\ ScaledNow.Height = 20 /\ NoClipping /\
                cropCfg.MarginPercent = 2 /\ cropCfg.Margin = 0)
                  => (cropRet.dx = 40 /\ cropRet.dy = 40)

\* A percent margin whose exact value has a fractional part was applied.
C14_Witness ==
    /\ PercentCrop
    /\ (ScaledNow.Width * cropCfg.MarginPercent) % 4 # 0
    /\ TruncatedPercent(ScaledNow.Width) >= cropCfg.Margin
    /\ TruncatedPercent(ScaledNow.Width) >= TruncatedPercent(ScaledNow.Height)
    /\ TruncatedPercent(ScaledNow.Width) > 0

\* C15: when MarginPercent > 0 the margin applied is the percent-derived one
\* and the fixed Margin has no effect on the crop rectangle.
C15_PercentOverrides ==
    PercentCrop =>
        cropRet.rect = ExpandedBy(Max2(TruncatedPercent(ScaledNow.Width),
                                       TruncatedPercent(ScaledNow.Height)))

\* C16: the final crop rectangle is clipped to the image:
\* 0 <= cropMinX <= cropMaxX <= width and 0 <= cropMinY <= cropMaxY <= height.
C16_ClippedToImage ==
    CropReturnedImage =>
        /\ 0 <= cropRet.rect[1] /\ cropRet.rect[1] <= cropRet.rect[3]
        /\ cropRet.rect[3] <= cropImg.w
        /\ 0 <= cropRet.rect[2] /\ cropRet.rect[2] <= cropRet.rect[4]
        /\ cropRet.rect[4] <= cropImg.h

\* The rectangle before the square step.
BeforeSquare == Clipped(ScaledNow, cropRet.margin, cropImg.w, cropImg.h)

\* Neither the margin step nor the square step's expansion of the shorter
\* axis is cut by an image edge.
SquareNotTruncated ==
    LET r == BeforeSquare
        cropW == r[3] - r[1]
        cropH == r[4] - r[2]
        half == (IF cropW > cropH THEN cropW - cropH ELSE cropH - cropW) \div 2
    IN  /\ NoClipping
        /\ cropW # cropH
        /\ cropW > cropH => (r[2] - half >= 0 /\ r[4] + half <= cropImg.h)
        /\ cropH > cropW => (r[1] - half >= 0 /\ r[3] + half <= cropImg.w)

\* C17: with squareCrop on a non-square object whose squared crop is not
\* truncated by an image edge, the returned crop is as wide as it is high.
C17_Square ==
    (CropReturnedImage /\ cropCfg.SquareCrop /\ SquareNotTruncated)
        => cropRet.dx = cropRet.dy

MaskEmpty == ~maskImg.nil /\ (maskImg.w = 0 \/ maskImg.h = 0)

\* C18 as stated: a nil or empty mask fails with the invalid-mask error
\* before bounds detection, and no image is returned.
C18_Original ==
    (cropPc = "returned" /\ (maskImg.nil \/ MaskEmpty))
        => /\ cropRet.err = "mask image is nil"
           /\ ~cropRet.detected
           /\ ~cropRet.image

\* C18 amended: a nil mask fails with the invalid-mask error before bounds
\* detection, and no image is returned; an empty mask is not rejected at
\* entry: it goes through bounds detection and fails with the "no object
\* detected" error, also without an image.
C18_Amended ==
    /\ (cropPc = "returned" /\ maskImg.nil)
          => /\ cropRet.err = "mask image is nil"
             /\ ~cropRet.detected
             /\ ~cropRet.image
             /\ objBounds = ZeroBounds
    /\ (cropPc = "returned" /\ MaskEmpty)
          => /\ cropRet.err = "no object detected in image"
             /\ cropRet.detected
             /\ ~cropRet.image

\* crop has returned for a nil mask.
C18_Witness == cropPc = "returned" /\ maskImg.nil /\ cropRet.err = "mask image is nil"

\* The mask covers the image pixel for pixel and the scale factors are 1.0.
SameResolution ==
    /\ ~maskImg.nil
    /\ maskImg.min = <<0, 0>>
    /\ maskImg.w = cropImg.w
    /\ maskImg.h = cropImg.h
    /\ cropScale = <<2, 2>>

\* The pixel positions whose mask value is >= MinThreshold.
QualifyingPixels ==
    {q \in RectPoints(maskImg.min, maskImg.w, maskImg.h) :
        maskImg.pix[q] >= cropCfg.MinThreshold}

\* Position q lies in the rectangle r = <<minX, minY, maxX, maxY>>, whose
\* upper corner is exclusive.
InRect(q, r) == r[1] <= q[1] /\ q[1] < r[3] /\ r[2] <= q[2] /\ q[2] < r[4]

\* C27: for a mask at the image's resolution (scale 1.0) and every margin,
\* the crop rectangle contains every position whose mask value is
\* >= MinThreshold, the object's last column MaxX and last row MaxY
\* included.
C27_CropContainsObject ==
    (CropReturnedImage /\ SameResolution) =>
        \A q \in QualifyingPixels : InRect(q, cropRet.rect)

\* What holds of C27 once the margin is at least 1.
ContainsObjectWithMargin ==
    (CropReturnedImage /\ SameResolution /\ cropRet.margin >= 1) =>
        \A q \in QualifyingPixels : InRect(q, cropRet.rect)

----------------------------------------------------------------------------
(* Images and MaskFromAlpha: mask.go *)
(*                                                                         *)
(* An image is its type (kind), its size, its Stride and the stored bytes  *)
(* <<R, G, B, A>> of each pixel; bounds.Min is the origin.  An *image.Gray *)
(* stores Y in the first byte, an *image.Alpha stores A in the fourth.     *)
(* *image.Alpha stands for the types that take the generic per-pixel path; *)
(* an *image.Paletted, whose palette holds color.RGBA values, is another.  *)
(* gap is the byte a SubImage of an *image.Gray has between its rows (the  *)
(* parent's pixels to the right of it).                                    *)

MaxImgW == 3

MaxImgH == 2

ImageKinds == {"RGBA", "NRGBA", "Gray", "Alpha"}

PackedKinds == {"RGBA", "NRGBA"}

\* Opaque black, opaque white, half-transparent black.
Palette == {<<0, 0, 0, 255>>, <<255, 255, 255, 255>>, <<0, 0, 0, 128>>}

\* The stored bytes a pixel of each type takes from the palette: an
\* *image.Gray has no alpha, an *image.Alpha no colour.
PaletteOf(k) ==
    CASE k = "Gray" -> {c \in Palette : c[4] = 255}
      [] k = "Alpha" -> {c \in Palette : c[1] = 0}
      [] OTHER -> Palette

AlphaValues == 0..255

\* Stride - 4*w: 0 for a whole image, more for a SubImage of a wider one.
StridePads == {0, 4}

ImgPoints(img) == RectPoints(<<0, 0>>, img.w, img.h)

\* The Pix byte at index i of a packed image (0 in the gap between rows).
PixByte(img, i) ==
    LET y == i \div img.stride
        o == i % img.stride
    IN  IF o < 4 * img.w THEN img.pix[<<o \div 4, y>>][(o % 4) + 1] ELSE 0

\* img.At(x, y).RGBA(): 16-bit alpha-premultiplied <<r, g, b, a>>.
RGBA16(img, p) == ColorRGBA16(img.kind, img.pix[p])

PackedBlueAt(img, x, y) == PixByte(img, y * img.stride + x * 4 + 2)

\* srcLine[x*4+3] with srcLine = srcPix[y*srcStride : y*srcStride+w*4]
PackedAlphaAt(img, x, y) == PixByte(img, y * img.stride + x * 4 + 3)

\* maskFromImage(src.Pix, src.Stride, bounds)
maskFromImage(img) ==
    [p \in ImgPoints(img) |-> PackedAlphaAt(img, p[1], p[2])]

\* uint8(a >> 8)
HighByte(a) == (a \div 256) % 256

MaskFromAlpha(img) ==
    CASE img.kind \in PackedKinds -> maskFromImage(img)
      [] img.kind = "Gray" -> [p \in ImgPoints(img) |-> 255]
      [] OTHER -> [p \in ImgPoints(img) |-> HighByte(RGBA16(img, p)[4])]

----------------------------------------------------------------------------
(* Sums of squares of 16-bit differences *)
(*                                                                         *)
(* The code holds these in int64 and float64, where they are exact.  Here  *)
(* a value v >= 0 is the pair <<hi, lo>> with v = hi * 65536 + lo and      *)
(* 0 <= lo < 65536, so that no intermediate result leaves 32 bits.         *)

Limb == 65536

\* d * d for -65536 < d < 65536.
SqWide(d) ==
    LET a == d \div 256
        b == d % 256
        m == 512 * a * b + b * b
    IN  <<a * a + (m \div Limb), m % Limb>>

AddWide(u, v) ==
    LET lo == u[2] + v[2]
    IN  <<u[1] + v[1] + (lo \div Limb), lo % Limb>>

\* u * k for a small k >= 0.
ScaleWide(u, k) ==
    LET lo == u[2] * k
    IN  <<u[1] * k + (lo \div Limb), lo % Limb>>

LessWide(u, v) == u[1] < v[1] \/ (u[1] = v[1] /\ u[2] < v[2])

\* dr*dr + dg*dg + db*db
DistSq(dr, dg, db) == AddWide(AddWide(SqWide(dr), SqWide(dg)), SqWide(db))

----------------------------------------------------------------------------
(* AutoMask and the strategies it chooses from: mask.go *)

\* stepX, stepY: a fifth of the size, at least 1.
SampleStep(d) == Max2(d \div 5, 1)

\* if a < 0xffff { return true } on the sampled grid.
hasAlpha(img) ==
    \E p \in ImgPoints(img) :
        /\ p[1] % SampleStep(img.w) = 0
        /\ p[2] % SampleStep(img.h) = 0
        /\ RGBA16(img, p)[4] < 65535

\* The four corners, the middle of the top edge, the middle of the right edge.
BackgroundSamples(img) ==
    << <<0, 0>>, <<img.w - 1, 0>>, <<0, img.h - 1>>, <<img.w - 1, img.h - 1>>,
       <<img.w \div 2, 0>>, <<img.w - 1, img.h \div 2>> >>

\* rSum / n, gSum / n, bSum / n over the sampled colours.
SampleAverage(cols) ==
    LET n == Len(cols)
    IN  [k \in 1..3 |->
            (cols[1][k] + cols[2][k] + cols[3][k] + cols[4][k] + cols[5][k]
               + cols[6][k]) \div n]

\* variance += (dr*dr + dg*dg + db*db) over the sampled colours.
SampleVariance(cols, avg) ==
    LET d == [i \in 1..Len(cols) |->
                 DistSq(cols[i][1] - avg[1], cols[i][2] - avg[2],
                        cols[i][3] - avg[3])]
    IN  AddWide(AddWide(AddWide(AddWide(AddWide(d[1], d[2]), d[3]), d[4]), d[5]),
                d[6])

\* 2e8 as a wide value.
UniformLimitPerSample == <<3051, 49664>>

\* isUniform := variance < 2e8*n
IsUniform(variance, n) == LessWide(variance, ScaleWide(UniformLimitPerSample, n))

detectUniformBackground(img) ==
    LET samples == BackgroundSamples(img)
        cols == [i \in 1..Len(samples) |-> RGBA16(img, samples[i])]
        avg == SampleAverage(cols)
        variance == SampleVariance(cols, avg)
    IN  [bg |-> <<(avg[1] \div 257) % 256, (avg[2] \div 257) % 256,
                  (avg[3] \div 257) % 256, 255>>,
         uniform |-> IsUniform(variance, Len(samples))]

\* tolerance * tolerance * 257.0 * 257.0 for a whole tolerance.
ToleranceSq(tolerance) ==
    LET t == tolerance * tolerance
    IN  <<t + ((513 * t) \div Limb), (513 * t) % Limb>>

\* 255 if distSq > toleranceSq, and 0 (the fresh mask's value) otherwise.
Beyond(distSq, toleranceSq) == IF LessWide(toleranceSq, distSq) THEN 255 ELSE 0

\* maskFromBackground: the packed bytes shifted left by 8.
maskFromBackground(img, bg16, toleranceSq) ==
    [p \in ImgPoints(img) |->
        LET i == p[2] * img.stride + p[1] * 4
            r == PixByte(img, i) * 256
            g == PixByte(img, i + 1) * 256
            b == PixByte(img, i + 2) * 256
        IN  Beyond(DistSq(r - bg16[1], g - bg16[2], b - bg16[3]), toleranceSq)]

\* bg is a color.RGBA <<R, G, B, A>>; bg.RGBA() gives 257 times each byte.
MaskFromBackground(img, bg, tolerance) ==
    LET bg16 == <<bg[1] * 257, bg[2] * 257, bg[3] * 257>>
        toleranceSq == ToleranceSq(tolerance)
    IN  IF img.kind \in PackedKinds
        THEN maskFromBackground(img, bg16, toleranceSq)
        ELSE [p \in ImgPoints(img) |->
                 LET c == RGBA16(img, p)
                 IN  Beyond(DistSq(c[1] - bg16[1], c[2] - bg16[2], c[3] - bg16[3]),
                            toleranceSq)]

\* g.Pix[i] of an *image.Gray: a pixel, or a byte of the gap between rows.
GrayByte(img, i) ==
    LET y == i \div img.stride
        o == i % img.stride
    IN  IF o < img.w THEN img.pix[<<o, y>>][1] ELSE img.gap

\* convertToGrayscale at one pixel; for an *image.Gray the result of
\* copy(gray.Pix, g.Pix), where gray.Stride is the width.
GrayAt(img, p) ==
    CASE img.kind = "Gray" -> GrayByte(img, p[2] * img.w + p[1])
      [] img.kind \in PackedKinds ->
           LET i == p[2] * img.stride + p[1] * 4
           IN  ((299 * PixByte(img, i) + 587 * PixByte(img, i + 1)
                   + 114 * PixByte(img, i + 2)) \div 1000) % 256
      [] OTHER ->
           LET c == RGBA16(img, p)
           IN  ((299 * (c[1] \div 256) + 587 * (c[2] \div 256)
                   + 114 * (c[3] \div 256)) \div 1000) % 256

\* sumX*sumX + sumY*sumY of the Sobel operator at an interior pixel.
SobelMagSq(img, x, y) ==
    LET p0 == GrayAt(img, <<x - 1, y - 1>>)
        p1 == GrayAt(img, <<x, y - 1>>)
        p2 == GrayAt(img, <<x + 1, y - 1>>)
        p3 == GrayAt(img, <<x - 1, y>>)
        p5 == GrayAt(img, <<x + 1, y>>)
        p6 == GrayAt(img, <<x - 1, y + 1>>)
        p7 == GrayAt(img, <<x, y + 1>>)
        p8 == GrayAt(img, <<x + 1, y + 1>>)
        sumX == -p0 + p2 - 2 * p3 + 2 * p5 - p6 + p8
        sumY == -p0 - 2 * p1 - p2 + p6 + 2 * p7 + p8
    IN  sumX * sumX + sumY * sumY

\* for y := 1; y < h-1; y++ { for x := 1; x < w-1; x++ { ... } }
MaskFromEdges(img, threshold) ==
    [p \in ImgPoints(img) |->
        IF /\ 1 <= p[1] /\ p[1] < img.w - 1
           /\ 1 <= p[2] /\ p[2] < img.h - 1
           /\ SobelMagSq(img, p[1], p[2]) > threshold * threshold
        THEN 255 ELSE 0]

\* The pixels MaskFromEdges reads: the interior pixels and their neighbours.
EdgeInputs(img) ==
    {p \in ImgPoints(img) : img.w >= 3 /\ img.h >= 3}

\* What imaging.Blur(img, 1.0) may return: an *image.NRGBA of the size of
\* img.  The library is not part of this repository; its result is taken
\* to be any such image that is black or white at each pixel MaskFromEdges
\* reads (and black at the others, which cannot influence the mask).
BlurResults(img) ==
    {[kind |-> "NRGBA", w |-> img.w, h |-> img.h, stride |-> 4 * img.w,
      gap |-> 0,
      pix |-> [p \in ImgPoints(img) |->
                  IF p \in white THEN <<255, 255, 255, 255>>
                  ELSE <<0, 0, 0, 255>>]] :
        white \in SUBSET EdgeInputs(img)}

AutoMaskBackgroundFirst(img, blurred) ==
    LET d == detectUniformBackground(img)
    IN  IF d.uniform
        THEN [strategy |-> "background",
              mask |-> MaskFromBackground(img, d.bg, 200)]
        ELSE IF hasAlpha(img)
        THEN [strategy |-> "alpha", mask |-> MaskFromAlpha(img)]
        ELSE [strategy |-> "edges", mask |-> MaskFromEdges(blurred, 200)]

\* AutoMask(img), given the blurred image; the strategy taken is recorded.
AutoMask(img, blurred) ==
    IF hasAlpha(img)
    THEN [strategy |-> "alpha", mask |-> MaskFromAlpha(img)]
    ELSE LET d == detectUniformBackground(img)
         IN  IF d.uniform
             THEN [strategy |-> "background",
                   mask |-> MaskFromBackground(img, d.bg, 200)]
             ELSE [strategy |-> "edges", mask |-> MaskFromEdges(blurred, 200)]

----------------------------------------------------------------------------
(* Specification SpecMask: an image is built, then one mask is taken *)

\* An image of type k: a whole image (pad = 0) or a SubImage.
Image(k, w, h, pad, px) ==
    [kind |-> k, w |-> w, h |-> h,
     stride |-> CASE k \in PackedKinds -> 4 * w + pad
                  [] k = "Gray" -> w + pad
                  [] OTHER -> w,
     gap |-> 0, pix |-> px]

\* The image is of one colour.
OneColour(img) == \A p, q \in ImgPoints(img) : img.pix[p] = img.pix[q]

\* Every image of at most MaxImgW x MaxImgH pixels over the palette.
InitMask ==
    /\ \E k \in ImageKinds, w \in 1..MaxImgW, h \in 1..MaxImgH, pad \in StridePads :
          /\ k \notin PackedKinds => pad = 0
          /\ \E px \in [RectPoints(<<0, 0>>, w, h) -> PaletteOf(k)] :
                srcImg = Image(k, w, h, pad, px)
    /\ maskPc = IF OneColour(srcImg) THEN "new" ELSE "ready"
    /\ maskRet = NoMaskRet
    /\ OtsuUnused
    /\ BlurPoolNew
    /\ ClientsUnused
    /\ EngineUnused
    /\ BlendUnused
    /\ CropUnused
    /\ ResizeUnused

\* img.SetRGBA(x, y, color.RGBA{0, 0, 0, n}), SetNRGBA, SetAlpha, or
\* Set(x, y, color.NRGBA{0, 0, 0, n}) on an *image.Gray, which stores Y = 0.
SetAlpha ==
    /\ maskPc = "new"
    /\ \E p \in ImgPoints(srcImg), n \in AlphaValues :
          srcImg' = [srcImg EXCEPT !.pix[p] =
                        IF srcImg.kind = "Gray" THEN <<0, 0, 0, 255>>
                        ELSE <<0, 0, 0, n>>]
    /\ maskPc' = "ready"
    /\ UNCHANGED maskRet
    /\ UNCHANGED otherThanMask

\* mask := MaskFromAlpha(img)
MaskFromAlphaCall ==
    /\ maskPc \in {"new", "ready"}
    /\ maskRet' = [strategy |-> "MaskFromAlpha", mask |-> MaskFromAlpha(srcImg)]
    /\ maskPc' = "done"
    /\ UNCHANGED srcImg
    /\ UNCHANGED otherThanMask

\* mask := AutoMask(img); imaging.Blur is called on the last branch only.
AutoMaskCall ==
    /\ maskPc \in {"new", "ready"}
    /\ IF hasAlpha(srcImg) \/ detectUniformBackground(srcImg).uniform
       THEN maskRet' = AutoMask(srcImg, srcImg)
       ELSE \E blurred \in BlurResults(srcImg) :
               maskRet' = AutoMask(srcImg, blurred)
    /\ maskPc' = "done"
    /\ UNCHANGED srcImg
    /\ UNCHANGED otherThanMask

NextMask ==
    \/ SetAlpha
    \/ MaskFromAlphaCall
    \/ AutoMaskCall

SpecMask == InitMask /\ [][NextMask]_vars

----------------------------------------------------------------------------
(* Claims about AutoMask and MaskFromAlpha (SpecMask) *)

AutoMaskDone ==
    maskPc = "done" /\ maskRet.strategy \in {"alpha", "background", "edges"}

\* Some pixel of the sampling grid is stored with an alpha byte below 255
\* (an *image.Gray has no alpha byte).
SampledTransparency ==
    /\ srcImg.kind # "Gray"
    /\ \E p \in ImgPoints(srcImg) :
          /\ p[1] % SampleStep(srcImg.w) = 0
          /\ p[2] % SampleStep(srcImg.h) = 0
          /\ srcImg.pix[p][4] < 255

UniformNow == detectUniformBackground(srcImg)

\* C19: AutoMask returns exactly MaskFromAlpha(img) if the image has alpha;
\* otherwise, if the background is judged uniform, exactly
\* MaskFromBackground(img, sampled colour, 200); only otherwise the edge
\* detector with threshold 200 on the blurred image.
C19_PriorityOrder ==
    AutoMaskDone =>
        /\ SampledTransparency =>
              /\ maskRet.strategy = "alpha"
              /\ maskRet.mask = MaskFromAlpha(srcImg)
        /\ (~SampledTransparency /\ UniformNow.uniform) =>
              /\ maskRet.strategy = "background"
              /\ maskRet.mask = MaskFromBackground(srcImg, UniformNow.bg, 200)
        /\ (~SampledTransparency /\ ~UniformNow.uniform) =>
              /\ maskRet.strategy = "edges"
              /\ \E blurred \in BlurResults(srcImg) :
                    maskRet.mask = MaskFromEdges(blurred, 200)

\* AutoMask has returned the alpha mask of an image whose background is
\* also uniform, and the background mask would have been a different one.
C19_Witness ==
    /\ AutoMaskDone
    /\ SampledTransparency
    /\ UniformNow.uniform
    /\ maskRet.strategy = "alpha"
    /\ maskRet.mask # MaskFromBackground(srcImg, UniformNow.bg, 200)

\* C20: the mask MaskFromAlpha returns holds, at every position, exactly the
\* alpha the pixel was given (any of 0..255), on the packed path (RGBA,
\* NRGBA) and on the generic path alike; for a single-channel source it is
\* 255 everywhere.
C20_AlphaRoundTrip ==
    (maskPc = "done" /\ maskRet.strategy = "MaskFromAlpha") =>
        \A p \in ImgPoints(srcImg) :
            maskRet.mask[p] = IF srcImg.kind = "Gray" THEN 255
                              ELSE srcImg.pix[p][4]

\* The mask of a two-row packed SubImage whose pixel (0, 1) was given
\* alpha 37.
C20_Witness ==
    /\ maskPc = "done"
    /\ maskRet.strategy = "MaskFromAlpha"
    /\ srcImg.kind = "RGBA"
    /\ srcImg.stride > 4 * srcImg.w
    /\ srcImg.h = 2
    /\ srcImg.pix[<<0, 1>>][4] = 37
    /\ maskRet.mask[<<0, 1>>] = 37

----------------------------------------------------------------------------
(* Specification SpecMaskCalls: one MaskFromBackground or MaskFromEdges call *)

MaxOpW == 3

MaxOpH == 3

\* *image.Paletted takes the generic per-pixel path with full colours.
OpKinds == {"RGBA", "NRGBA", "Gray", "Paletted"}

\* color.Black and color.White.
OpColours == {<<0, 0, 0, 255>>, <<255, 255, 255, 255>>}

\* The bg argument: white, black, and a light grey.
References == {<<255, 255, 255, 255>>, <<0, 0, 0, 255>>, <<245, 245, 245, 255>>}

Tolerances == {0, 1, 10}

EdgeThresholds == {0, 50}

\* The bytes of the parent image between the rows of a SubImage.
GapBytes == {0, 255}

\* Every black-and-white image of at most MaxOpW x MaxOpH pixels: a whole
\* image, or (RGBA, NRGBA, Gray) a SubImage of a wider one.
InitMaskCalls ==
    /\ \E k \in OpKinds, w \in 1..MaxOpW, h \in 1..MaxOpH, pad \in StridePads,
          gap \in GapBytes :
          /\ k = "Paletted" => pad = 0
          /\ (k # "Gray" \/ pad = 0) => gap = 0
          /\ \E px \in [RectPoints(<<0, 0>>, w, h) -> OpColours] :
                srcImg = [Image(k, w, h, pad, px) EXCEPT !.gap = gap]
    /\ maskPc = "ready"
    /\ maskRet = NoMaskRet
    /\ OtsuUnused
    /\ BlurPoolNew
    /\ ClientsUnused
    /\ EngineUnused
    /\ BlendUnused
    /\ CropUnused
    /\ ResizeUnused

\* mask := MaskFromBackground(img, bg, tolerance)
MaskFromBackgroundCall ==
    /\ maskPc = "ready"
    /\ \E bg \in References, tolerance \in Tolerances :
          maskRet' = [strategy |-> "MaskFromBackground",
                      mask |-> MaskFromBackground(srcImg, bg, tolerance),
                      bg |-> bg, tolerance |-> tolerance]
    /\ maskPc' = "done"
    /\ UNCHANGED srcImg
    /\ UNCHANGED otherThanMask

\* mask := MaskFromEdges(img, threshold)
MaskFromEdgesCall ==
    /\ maskPc = "ready"
    /\ \E threshold \in EdgeThresholds :
          maskRet' = [strategy |-> "MaskFromEdges",
                      mask |-> MaskFromEdges(srcImg, threshold),
                      threshold |-> threshold]
    /\ maskPc' = "done"
    /\ UNCHANGED srcImg
    /\ UNCHANGED otherThanMask

NextMaskCalls ==
    \/ MaskFromBackgroundCall
    \/ MaskFromEdgesCall

SpecMaskCalls == InitMaskCalls /\ [][NextMaskCalls]_vars

----------------------------------------------------------------------------
(* Claims about MaskFromBackground and MaskFromEdges (SpecMaskCalls) *)

BackgroundDone == maskPc = "done" /\ maskRet.strategy = "MaskFromBackground"

EdgesDone == maskPc = "done" /\ maskRet.strategy = "MaskFromEdges"

\* The 8-bit colour of a pixel, as img.At(x, y) gives it.
ColourAt(img, p) ==
    LET c == RGBA16(img, p) IN <<c[1] \div 257, c[2] \div 257, c[3] \div 257>>

SameAsReference(p) ==
    ColourAt(srcImg, p) = <<maskRet.bg[1], maskRet.bg[2], maskRet.bg[3]>>

\* Black against white or white against black.
MaximallyDifferent(p) ==
    \A k \in 1..3 :
        \/ ColourAt(srcImg, p)[k] = 0 /\ maskRet.bg[k] = 255
        \/ ColourAt(srcImg, p)[k] = 255 /\ maskRet.bg[k] = 0

\* C21: whatever the reference colour and the tolerance, MaskFromBackground
\* gives 0 at a pixel whose colour is the reference colour, on the packed
\* path and on the generic path; with tolerance 10 it gives 255 at a
\* maximally different pixel.
C21_BackgroundMask ==
    BackgroundDone =>
        \A p \in ImgPoints(srcImg) :
            /\ SameAsReference(p) => maskRet.mask[p] = 0
            /\ (maskRet.tolerance = 10 /\ MaximallyDifferent(p)) =>
                  maskRet.mask[p] = 255

OnBorder(img, p) ==
    p[1] = 0 \/ p[2] = 0 \/ p[1] = img.w - 1 \/ p[2] = img.h - 1

\* Every pixel of the image has the same intensity.
ConstantIntensity(img) ==
    \A p, q \in ImgPoints(img) : RGBA16(img, p) = RGBA16(img, q)

\* C22: in the mask MaskFromEdges returns, whatever the size of the image
\* and the threshold, every pixel of the one-pixel border is 0, and for an
\* image of constant intensity every pixel is 0.
C22_EdgesBorderAndFlat ==
    EdgesDone =>
        /\ \A p \in ImgPoints(srcImg) :
              OnBorder(srcImg, p) => maskRet.mask[p] = 0
        /\ ConstantIntensity(srcImg) =>
              \A p \in ImgPoints(srcImg) : maskRet.mask[p] = 0

\* The first half of C22 alone.
BorderIsZero ==
    EdgesDone =>
        \A p \in ImgPoints(srcImg) : OnBorder(srcImg, p) => maskRet.mask[p] = 0

\* The second half of C22 for images that are not a SubImage of an
\* *image.Gray.
FlatIsZeroUnlessGraySubImage ==
    (EdgesDone /\ ConstantIntensity(srcImg)
       /\ ~(srcImg.kind = "Gray" /\ srcImg.stride > srcImg.w)) =>
        \A p \in ImgPoints(srcImg) : maskRet.mask[p] = 0

\* The same pixels held by an image type that takes the generic path.
AsGeneric(img) == [img EXCEPT !.kind = "Paletted", !.stride = img.w]

\* 255 exactly when the squared distance between the pixel and the
\* reference colour, both as 16-bit channels, exceeds tolerance^2 * 257^2.
SixteenBitRule(img, p, bg, tolerance) ==
    LET c == RGBA16(img, p)
    IN  Beyond(DistSq(c[1] - 257 * bg[1], c[2] - 257 * bg[2], c[3] - 257 * bg[3]),
               ToleranceSq(tolerance))

\* C26: for the same fully opaque pixels, reference colour and tolerance,
\* the packed path and the generic path of MaskFromBackground give the same
\* mask: 255 exactly where the squared distance in 16-bit channel space
\* exceeds tolerance^2 * 257^2, and 0 elsewhere.
C26_OneRuleOnBothPaths ==
    BackgroundDone =>
        /\ maskRet.mask =
              MaskFromBackground(AsGeneric(srcImg), maskRet.bg, maskRet.tolerance)
        /\ \A p \in ImgPoints(srcImg) :
              maskRet.mask[p] =
                 SixteenBitRule(srcImg, p, maskRet.bg, maskRet.tolerance)

\* What holds of the generic path alone.
GenericPathFollowsRule ==
    (BackgroundDone /\ srcImg.kind \notin PackedKinds) =>
        \A p \in ImgPoints(srcImg) :
            maskRet.mask[p] =
               SixteenBitRule(srcImg, p, maskRet.bg, maskRet.tolerance)

----------------------------------------------------------------------------
(* resizeGrayBlur5O: the bilinear resize and the two box-blur passes *)
(*                                                                         *)
(* The ratios, source coordinates and interpolated values of the resize    *)
(* are float64 values, computed operation by operation as the code does.   *)

MaxNewW == 7

MaxNewH == 7

\* The byte a buffer left in the pool by an earlier call is filled with.
StaleByte == 255

\* Source masks of sw x sh pixels: every black-and-white one when it has at
\* most four pixels; otherwise all white, or one white pixel on black.
SourcePatterns(sw, sh) ==
    LET pts == RectPoints(<<0, 0>>, sw, sh)
    IN  IF sw * sh <= 4
        THEN [pts -> {0, 255}]
        ELSE {[p \in pts |-> 255]}
               \cup {[p \in pts |-> IF p = q THEN 255 ELSE 0] : q \in pts}

\* n zero bytes: make([]uint8, n), and the Pix of image.NewGray.
Zeroes(n) == [i \in 0..(n - 1) |-> 0]

Cap(a) == Cardinality(DOMAIN a)

\* The buffers the pool can hand out for a request of size bytes: a new
\* blurBuffer{} (nil slices), or one that an earlier call put back, of a
\* smaller, the same or a larger capacity, holding that call's data.
PoolHistories(size) ==
    {[tmp |-> << >>, hPass |-> << >>]}
      \cup {[tmp |-> [i \in 0..(c - 1) |-> StaleByte],
             hPass |-> [i \in 0..(c - 1) |-> StaleByte - 1]] :
               c \in {size - 1, size, size + 1} \ {0}}

\* blurBufferPool.get: new zeroed arrays if cap(buf.tmp) < size, else the
\* old arrays resliced to size (the bytes stay as they are).
GetContents(b, size) ==
    IF Cap(b.tmp) < size
    THEN [tmp |-> Zeroes(size), hPass |-> Zeroes(size)]
    ELSE b

\* sx := xRatio * float64(x) with xRatio := float64(srcW) / float64(newW);
\* the same for sy.
SourceCoord(srcLen, newLen, i) ==
    FloatMul(FloatDiv(FloatOf(srcLen), FloatOf(newLen)), FloatOf(i))

\* p + (q - p) * lerp
Lerp(p, q, lerp) == FloatAdd(p, FloatMul(FloatSub(q, p), lerp))

\* uint8(top + (bottom-top)*yLerp) for the target pixel (x, y).
BilinearAt(src, newW, newH, x, y) ==
    LET sy == SourceCoord(src.h, newH, y)
        y0 == FloatTrunc(sy)
        y1 == Min2(y0 + 1, src.h - 1)
        yLerp == FloatSub(sy, FloatOf(y0))
        sx == SourceCoord(src.w, newW, x)
        x0 == FloatTrunc(sx)
        x1 == Min2(x0 + 1, src.w - 1)
        xLerp == FloatSub(sx, FloatOf(x0))
        p00 == FloatOf(src.pix[<<x0, y0>>])
        p10 == FloatOf(src.pix[<<x1, y0>>])
        p01 == FloatOf(src.pix[<<x0, y1>>])
        p11 == FloatOf(src.pix[<<x1, y1>>])
        top == Lerp(p00, p10, xLerp)
        bottom == Lerp(p01, p11, xLerp)
    IN  FloatTrunc(Lerp(top, bottom, yLerp)) % 256

\* The first loop nest: tmp[y*newW+x] = ... for every y < newH, x < newW.
ResizeAllButLast(tmp, src, newW, newH) ==
    [i \in DOMAIN tmp |->
        IF i < newW * newH - 1
        THEN BilinearAt(src, newW, newH, i % newW, i \div newW)
        ELSE tmp[i]]

Resize(tmp, src, newW, newH) ==
    [i \in DOMAIN tmp |->
        IF i < newW * newH
        THEN BilinearAt(src, newW, newH, i % newW, i \div newW)
        ELSE tmp[i]]

\* Row y of tmp, and column x of hPass, as the passes index them.
HLine(tmp, w, y) == [i \in 0..(w - 1) |-> tmp[y * w + i]]

VLine(hPass, w, h, x) == [i \in 0..(h - 1) |-> hPass[i * w + x]]

\* for k := -radius; k <= radius; k++ { sum += int(line[clamp(k, 0, n-1)]) }
RECURSIVE InitialSum(_, _, _)
InitialSum(line, n, k) ==
    IF k > Radius THEN 0
    ELSE line[clamp(k, 0, n - 1)] + InitialSum(line, n, k + 1)

RECURSIVE RunningSumLateDrop(_, _, _)
RunningSumLateDrop(line, n, x) ==
    IF x = 0 THEN InitialSum(line, n, -Radius)
    ELSE RunningSumLateDrop(line, n, x - 1)
           + line[Min2(x + Radius, n - 1)] - line[Max2(x - Radius, 0)]

\* sum at position x: the sum at x - 1 plus the sample that enters
\* (out := min(x+radius, n-1)) minus the one that leaves
\* (in := max(x-radius-1, 0)).
RECURSIVE RunningSum(_, _, _)
RunningSum(line, n, x) ==
    IF x = 0 THEN InitialSum(line, n, -Radius)
    ELSE RunningSum(line, n, x - 1)
           + line[Min2(x + Radius, n - 1)] - line[Max2(x - Radius - 1, 0)]

\* uint8(sum / window)
Average(sum) == (sum \div Window) % 256

\* The running sums of a whole row or column.
LineSums(line, n) == [x \in 0..(n - 1) |-> RunningSum(line, n, x)]

----------------------------------------------------------------------------
(* Specification SpecResize: one resizeGrayBlur5O(src, newW, newH) call *)

InitResize ==
    /\ \E newW \in 1..MaxNewW, newH \in 1..MaxNewH :
          \E sw \in {1, 2, newW}, sh \in {1, 2, newH} :
             \E pix \in SourcePatterns(sw, sh) :
                rsIn = [src |-> [w |-> sw, h |-> sh, pix |-> pix],
                        w |-> newW, h |-> newH]
    /\ rsBuf \in PoolHistories(rsIn.w * rsIn.h)
    /\ rsDst = << >>
    /\ rsPc = "get"
    /\ rsI = 0
    /\ rsSums = NoSums
    /\ OtsuUnused
    /\ BlurPoolNew
    /\ ClientsUnused
    /\ EngineUnused
    /\ BlendUnused
    /\ CropUnused
    /\ MaskUnused

\* dst := image.NewGray(...); buf := r.blurPool.get(bufSize)
GetBuf ==
    /\ rsPc = "get"
    /\ rsBuf' = GetContents(rsBuf, rsIn.w * rsIn.h)
    /\ rsDst' = Zeroes(rsIn.w * rsIn.h)
    /\ rsPc' = "resize"
    /\ UNCHANGED <<rsIn, rsI, rsSums>>
    /\ UNCHANGED otherThanResize

\* The bilinear resize into tmp.
BilinearResize ==
    /\ rsPc = "resize"
    /\ rsBuf' = [rsBuf EXCEPT !.tmp = Resize(rsBuf.tmp, rsIn.src, rsIn.w, rsIn.h)]
    /\ rsPc' = "hpass"
    /\ rsI' = 0
    /\ UNCHANGED <<rsIn, rsDst, rsSums>>
    /\ UNCHANGED otherThanResize

\* One row of the horizontal pass: hPass[rowOffset+x] = uint8(sum / window).
HorizontalPass ==
    /\ rsPc = "hpass"
    /\ LET w == rsIn.w
           y == rsI
           sums == LineSums(HLine(rsBuf.tmp, w, y), w)
       IN  /\ rsBuf' = [rsBuf EXCEPT !.hPass =
                          [i \in DOMAIN rsBuf.hPass |->
                              IF y * w <= i /\ i < (y + 1) * w
                              THEN Average(sums[i - y * w])
                              ELSE rsBuf.hPass[i]]]
           /\ rsSums' = [pass |-> "h", at |-> y, sums |-> sums]
    /\ IF rsI + 1 < rsIn.h
       THEN rsI' = rsI + 1 /\ rsPc' = "hpass"
       ELSE rsI' = 0 /\ rsPc' = "vpass"
    /\ UNCHANGED <<rsIn, rsDst>>
    /\ UNCHANGED otherThanResize

\* One column of the vertical pass: dst.SetGray(x, y, uint8(sum / window)).
VerticalPass ==
    /\ rsPc = "vpass"
    /\ LET w == rsIn.w
           h == rsIn.h
           x == rsI
           sums == LineSums(VLine(rsBuf.hPass, w, h, x), h)
       IN  /\ rsDst' = [i \in DOMAIN rsDst |->
                          IF i % w = x THEN Average(sums[i \div w])
                          ELSE rsDst[i]]
           /\ rsSums' = [pass |-> "v", at |-> x, sums |-> sums]
    /\ IF rsI + 1 < rsIn.w
       THEN rsI' = rsI + 1 /\ rsPc' = "vpass"
       ELSE rsI' = 0 /\ rsPc' = "return"
    /\ UNCHANGED <<rsIn, rsBuf>>
    /\ UNCHANGED otherThanResize

\* return dst, after the deferred r.blurPool.put(buf).
ResizeReturn ==
    /\ rsPc = "return"
    /\ rsPc' = "done"
    /\ UNCHANGED <<rsIn, rsBuf, rsDst, rsI, rsSums>>
    /\ UNCHANGED otherThanResize

NextResize ==
    \/ GetBuf
    \/ BilinearResize
    \/ HorizontalPass
    \/ VerticalPass
    \/ ResizeReturn

SpecResize == InitResize /\ [][NextResize]_vars

----------------------------------------------------------------------------
(* Claims about resizeGrayBlur5O (SpecResize) *)

\* The sum of the five window samples around x, indices clamped to 0..n-1.
DirectSum(line, n, x) ==
    LET sample(k) == line[clamp(x + k, 0, n - 1)]
    IN  sample(-2) + sample(-1) + sample(0) + sample(1) + sample(2)

\* The row of tmp or the column of hPass that the pass just done has read.
LineJustDone ==
    IF rsSums.pass = "h" THEN HLine(rsBuf.tmp, rsIn.w, rsSums.at)
    ELSE VLine(rsBuf.hPass, rsIn.w, rsIn.h, rsSums.at)

LengthJustDone == IF rsSums.pass = "h" THEN rsIn.w ELSE rsIn.h

\* C25: in both passes, for every size (those below the window of 5
\* included) and every position, the running sum is the sum of the five
\* window samples with indices clamped to the nearest valid one, and it
\* lies in 0..5*255, so that the stored average fits a byte.
C25_SlidingEqualsDirect ==
    rsSums.pass # "none" =>
        \A x \in 0..(LengthJustDone - 1) :
            /\ rsSums.sums[x] = DirectSum(LineJustDone, LengthJustDone, x)
            /\ 0 <= rsSums.sums[x]
            /\ rsSums.sums[x] <= Window * 255

\* A column of seven cells that are not all alike has been blurred, and so
\* has, earlier in the same call, a row shorter than the window: at
\* position 4 a sample left the window and an unclamped one entered.
C25_Witness ==
    /\ rsSums.pass = "v"
    /\ rsIn.h = 7
    /\ rsIn.w \in 1..4
    /\ rsSums.sums[4] # rsSums.sums[3]
    /\ rsSums.sums[4] # 0

\* The first n bytes of the array a, in order.
RECURSIVE BytesOf(_, _)
BytesOf(a, n) == IF n = 0 THEN << >> ELSE Append(BytesOf(a, n - 1), a[n - 1])

\* The array a once it is written out: each cell computed one time.
Written(a, n) ==
    LET bytes == BytesOf(a, n)
    IN  [i \in 0..(n - 1) |-> bytes[i + 1]]

\* The image the call returns when the pool hands out a new buffer.
FreshResult(in) ==
    LET size == in.w * in.h
        tmp == Written(Resize(Zeroes(size), in.src, in.w, in.h), size)
        hPass == Written([i \in 0..(size - 1) |->
                            Average(RunningSum(HLine(tmp, in.w, i \div in.w),
                                               in.w, i % in.w))], size)
    IN  [i \in 0..(size - 1) |->
            Average(RunningSum(VLine(hPass, in.w, in.h, i % in.w), in.h,
                               i \div in.w))]

\* C28: the image resizeGrayBlur5O returns depends on the source mask and
\* the target size alone: whatever buffer the pool handed out (a new one,
\* or a reused one holding an earlier call's data), it is the image a call
\* with a new buffer returns.
C28_IndependentOfBuffer ==
    rsPc = "done" => rsDst = FreshResult(rsIn)

\* A call that was given a larger buffer full of stale bytes has returned
\* an image that is neither black nor made of the stale bytes.
C28_Witness ==
    /\ rsPc = "done"
    /\ Cap(rsBuf.tmp) > rsIn.w * rsIn.h
    /\ rsBuf.tmp[rsIn.w * rsIn.h] = StaleByte
    /\ rsIn.w * rsIn.h >= 4
    /\ \E i \in DOMAIN rsDst : rsDst[i] \notin {0, StaleByte, StaleByte - 1}

====
